---- MODULE Spec2Model ----
(***************************************************************************)
(* Meeting-audio pipeline of electron/LLMHelper.ts.                         *)
(*                                                                         *)
(* The source file carries two revisions of LLMHelper.processMeetingAudio: *)
(*   - the gated single-pass revision  (lines 229-288), pipeline "gated";  *)
(*   - the chunked revision            (lines 672-775), pipeline "chunked".*)
(* Both are modelled; one invocation is in flight at a time.               *)
(*                                                                         *)
(* STRINGS.  Every string is run-length encoded: a sequence of runs        *)
(* <<c, n>>, n >= 1 copies of the character c, one of                      *)
(*    "w"   a letter or digit           (word class [\p{L}\p{N}_'-])       *)
(*    "-"   a hyphen                    (word class; also a bullet)        *)
(*    " "   a blank                     (whitespace)                       *)
(*    "\n"  a line break                (whitespace)                       *)
(*    "."   a sentence terminator . ! ?                                    *)
(*    ","   any other symbol                                               *)
(*    "#"   a hash sign                 (a symbol; starts a heading)       *)
(* The code never distinguishes two characters that this alphabet merges,  *)
(* and run lengths let a text pass the 10000-token threshold and the       *)
(* 12000-character chunk limit with the constants the code uses.           *)
(***************************************************************************)
EXTENDS Integers, Sequences, FiniteSets, TLC

VARIABLES
    model,                        \* LLMHelper.model: Null or the API key of the Gemini client
    useOllama,                    \* LLMHelper.useOllama
    ollamaInitializationPromise,  \* LLMHelper.ollamaInitializationPromise: Null or "set"
    pipeline,                     \* which revision of processMeetingAudio is running
    pc,                           \* position of the invocation
    options,                      \* ProcessMeetingAudioOptions of the invocation
    transcription,                \* local `transcription` (Null before it is obtained)
    pending,                      \* the provider call being awaited (Null when none)
    calls,                        \* provider network calls issued by this invocation, in order
    transcribeRuns,               \* times transcribeAudio was started by this invocation
    lastAnswer,                   \* text the final provider call resolved with (None: it has not)
    chunks,                       \* local `chunks`
    index,                        \* local loop variable `index` (0-based, as in the code)
    extractedBlocks,              \* local `extractedBlocks`
    breadcrumbs,                  \* local `breadcrumbs`
    sanitizedChunk,               \* local `sanitizedChunk` (Null outside the extract call)
    chunkLog,                     \* per processed chunk: breadcrumb before/after and outcome
    result,                       \* the MeetingProcessingResult returned (Null while running)
    splitArgs,                    \* splitTextIntoChunks: the arguments of the call under study
    splitResult,                  \* splitTextIntoChunks: the chunks it returned (None before)
    revision,                     \* TranscriptionHelper: which revision of the class is deployed
    tpc,                          \* transcribeAudio: position of the call
    tempFile,                     \* transcribeAudio: fs.existsSync(tempFilePath)
    pythonCommand,                \* transcribeAudio: local `pythonCommand` (Null before)
    execution,                    \* what the transcription subprocess did (None before it ended)
    transcribeOutcome,            \* what transcribeAudio returned or threw (None while running)
    ollamaModel,                  \* LLMHelper.ollamaModel
    ipc,                          \* initializeOllamaModel: position of the call
    configuredModel,              \* ollamaModel when initializeOllamaModel was called
    availableModels,              \* initializeOllamaModel: local `availableModels` (None before)
    fallbackModels,               \* initializeOllamaModel: local `models` of the catch clause
    ollamaUrl,                    \* LLMHelper.ollamaUrl
    lastSwitch,                   \* the last switchToOllama / switchToGemini call, and whether it threw
    savedOllama,                  \* ollamaModel and ollamaUrl when the helper was last switched to Gemini
    estimateArgs,                 \* estimateUkrainianTokens: the texts `a` and `b` under study
    estimateResult,               \* estimateUkrainianTokens: its values on a and on a + b (None before)
    extraction,                   \* buildBreadcrumbsFromExtraction: the argument of the call under study
    breadcrumbResult,             \* buildBreadcrumbsFromExtraction: what it returned (None before)
    isRecording,                  \* AudioRecorder: state `isRecording`
    isProcessing,                 \* AudioRecorder: state `isProcessing`
    mediaRecorderRef,             \* AudioRecorder: mediaRecorderRef.current (0 for null)
    streamRef,                    \* AudioRecorder: streamRef.current (0 for null)
    recorders                     \* AudioRecorder: per startRecording call, its recorder, stream and onstop handler

helperVars == <<model, useOllama, ollamaInitializationPromise>>
chunkVars == <<chunks, index, extractedBlocks, breadcrumbs, sanitizedChunk, chunkLog>>
runVars == <<pipeline, pc, options, transcription, pending, calls, transcribeRuns,
             lastAnswer, result>>
splitVars == <<splitArgs, splitResult>>
\* the variables of the components that are studied on their own
transcriberVars == <<revision, tpc, tempFile, pythonCommand, execution, transcribeOutcome>>
ollamaVars == <<ollamaModel, ipc, configuredModel, availableModels, fallbackModels,
                ollamaUrl, lastSwitch, savedOllama>>
estimateVars == <<estimateArgs, estimateResult>>
breadcrumbVars == <<extraction, breadcrumbResult>>
recorderVars == <<isRecording, isProcessing, mediaRecorderRef, streamRef, recorders>>
unitVars == <<splitVars, estimateVars, breadcrumbVars, recorderVars>>
auxVars == <<unitVars, transcriberVars, ollamaVars>>
\* the variables of LLMHelper.processMeetingAudio
meetingVars == <<helperVars, runVars, chunkVars>>
vars == <<meetingVars, auxVars>>

Null == "null"

-----------------------------------------------------------------------------
(* Bounds of the model *)

\* longest input text, in runs
MaxRuns == 3

\* longest text given to splitTextIntoChunks on its own, in characters
MaxSplitRuns == 5

\* largest maxChunkLength given to splitTextIntoChunks on its own
MaxSplitLen == 4

\* longest output of the transcription subprocess, in runs
MaxOutRuns == 2

\* most models the Ollama list endpoint reports
MaxModels == 2
MaxEstimateRuns == 2
MaxExtractionLines == 6
MaxRecordings == 2

-----------------------------------------------------------------------------
(* Program constants *)

transcriptionTokenThreshold == 10000
maxChunkLength == 12000
targetChunkLength == 10000
BreadcrumbLines == 5
\* 16 * 1024 * 1024
TRANSCRIPTION_MAX_BUFFER_BYTES == 16777216
\* the maxBuffer of child_process.exec when the caller passes none: 1024 * 1024
DefaultMaxBuffer == 1048576

-----------------------------------------------------------------------------
(* Text primitives *)

Chr(r) == r[1]
Cnt(r) == r[2]

\* \s
IsSpace(c) == c \in {" ", "\n"}
\* [\p{L}\p{N}_'-]
IsWordChar(c) == c \in {"w", "-"}
\* [.!?]
IsTerminator(c) == c = "."

\* a run of symbols as long as the threshold counts tokens
BigRun == transcriptionTokenThreshold

RunAlphabet == {<<"w", 1>>, <<" ", 1>>, <<".", 1>>, <<",", BigRun>>}

SeqsUpTo(S, n) == UNION {[1..k -> S] : k \in 0..n}

\* the texts the transcription subprocess may print and a caller may pass as override
Texts == SeqsUpTo(RunAlphabet, MaxRuns)

\* String.length
RECURSIVE StrLen(_)
StrLen(text) ==
    IF text = <<>> THEN 0 ELSE Cnt(Head(text)) + StrLen(Tail(text))

RECURSIVE DropWhileSpace(_)
DropWhileSpace(text) ==
    IF text # <<>> /\ IsSpace(Chr(Head(text))) THEN DropWhileSpace(Tail(text)) ELSE text

RECURSIVE Reverse(_)
Reverse(s) ==
    IF s = <<>> THEN <<>> ELSE Append(Reverse(Tail(s)), Head(s))

\* String.prototype.trim
Trim(text) == Reverse(DropWhileSpace(Reverse(DropWhileSpace(text))))

\* the first k characters: text.slice(0, k)
RECURSIVE Take(_, _)
Take(text, k) ==
    IF k <= 0 \/ text = <<>> THEN <<>>
    ELSE IF Cnt(Head(text)) <= k
         THEN <<Head(text)>> \o Take(Tail(text), k - Cnt(Head(text)))
         ELSE << <<Chr(Head(text)), k>> >>

\* all but the first k characters: text.slice(k)
RECURSIVE Drop(_, _)
Drop(text, k) ==
    IF k <= 0 \/ text = <<>> THEN text
    ELSE IF Cnt(Head(text)) <= k
         THEN Drop(Tail(text), k - Cnt(Head(text)))
         ELSE << <<Chr(Head(text)), Cnt(Head(text)) - k>> >> \o Tail(text)

\* faulty variant: the `+` of the pattern is missing, every word character is a match
WordLikeMatchesPerCharacter(text) ==
    LET wordRuns == {i \in 1..Len(text) : IsWordChar(Chr(text[i]))}
        RECURSIVE Sum(_)
        Sum(S) == IF S = {} THEN 0
                  ELSE LET i == CHOOSE x \in S : TRUE IN Cnt(text[i]) + Sum(S \ {i})
    IN  Sum(wordRuns)

\* text.match(/[\p{L}\p{N}_'-]+/gu): the maximal runs of word characters
WordLikeMatches(text) ==
    Cardinality({i \in 1..Len(text) :
                    IsWordChar(Chr(text[i]))
                    /\ (i = 1 \/ ~IsWordChar(Chr(text[i - 1])))})

\* text.match(/[^\s\p{L}\p{N}_'-]/gu): every non-space character outside the word class
RECURSIVE PunctuationMatches(_)
PunctuationMatches(text) ==
    IF text = <<>> THEN 0
    ELSE (IF ~IsSpace(Chr(Head(text))) /\ ~IsWordChar(Chr(Head(text)))
          THEN Cnt(Head(text)) ELSE 0)
         + PunctuationMatches(Tail(text))

estimateUkrainianTokens(text) == WordLikeMatches(text) + PunctuationMatches(text)

\* faulty variant: the trim is missing
IsEmptyTranscriptionUntrimmed(text) == text = <<>>

\* !transcription || transcription.trim().length === 0
IsEmptyTranscription(text) == text = <<>> \/ StrLen(Trim(text)) = 0

-----------------------------------------------------------------------------
(* ChunkSplitter: LLMHelper.splitTextIntoChunks *)

Space == << <<" ", 1>> >>

\* text.replace(/\s+/g, " "): every maximal whitespace stretch becomes one blank
RECURSIVE CollapseWhitespace(_)
CollapseWhitespace(text) ==
    IF text = <<>> THEN <<>>
    ELSE IF IsSpace(Chr(Head(text)))
         THEN Space \o CollapseWhitespace(DropWhileSpace(text))
         ELSE <<Head(text)>> \o CollapseWhitespace(Tail(text))

NormalizeText(text) == Trim(CollapseWhitespace(text))

\* scan of /[^.!?]+[.!?]+|[^.!?]+$/g over `rest`; `cur` is the match being
\* extended, `acc` the matches found.  A terminator that no non-terminator
\* precedes belongs to no match.
RECURSIVE MatchSentences(_, _, _)
MatchSentences(rest, cur, acc) ==
    IF rest = <<>> THEN (IF cur = <<>> THEN acc ELSE Append(acc, cur))
    ELSE IF IsTerminator(Chr(Head(rest)))
         THEN IF cur = <<>>
              THEN MatchSentences(Tail(rest), <<>>, acc)
              ELSE MatchSentences(Tail(rest), Append(cur, Head(rest)), acc)
         ELSE IF cur # <<>> /\ IsTerminator(Chr(cur[Len(cur)]))
              THEN MatchSentences(Tail(rest), <<Head(rest)>>, Append(acc, cur))
              ELSE MatchSentences(Tail(rest), Append(cur, Head(rest)), acc)

\* normalizedText.match(...) ?? [normalizedText]
SentenceParts(normalizedText) ==
    LET m == MatchSentences(normalizedText, <<>>, <<>>)
    IN  IF m = <<>> THEN <<normalizedText>> ELSE m

\* sentenceParts.map(trim).filter(Boolean)
RECURSIVE TrimAndFilter(_)
TrimAndFilter(parts) ==
    IF parts = <<>> THEN <<>>
    ELSE (IF Trim(Head(parts)) = <<>> THEN <<>> ELSE <<Trim(Head(parts))>>)
         \o TrimAndFilter(Tail(parts))

\* for (i = 0; i < sentence.length; i += max) chunks.push(sentence.slice(i, i + max).trim())
RECURSIVE HardSplit(_, _)
HardSplit(sentence, maxLen) ==
    IF sentence = <<>> THEN <<>>
    ELSE <<Trim(Take(sentence, maxLen))>> \o HardSplit(Drop(sentence, maxLen), maxLen)

\* currentChunk ? `${currentChunk} ${sentence}` : sentence
Candidate(currentChunk, sentence) ==
    IF currentChunk # <<>> THEN currentChunk \o Space \o sentence ELSE sentence

\* faulty variant: a candidate of exactly maxLen closes the chunk
ClosesChunkAtMaxLen(currentChunk, sentence, maxLen, targetLen) ==
    \/ StrLen(Candidate(currentChunk, sentence)) >= maxLen
    \/ /\ StrLen(currentChunk) >= targetLen
       /\ StrLen(Candidate(currentChunk, sentence)) > targetLen

\* faulty variant: only the target length closes a chunk
ClosesChunkAtTargetOnly(currentChunk, sentence, maxLen, targetLen) ==
    /\ StrLen(currentChunk) >= targetLen
    /\ StrLen(Candidate(currentChunk, sentence)) > targetLen

\* the test that closes the running chunk before `sentence` is added
ClosesChunk(currentChunk, sentence, maxLen, targetLen) ==
    \/ StrLen(Candidate(currentChunk, sentence)) > maxLen
    \/ /\ StrLen(currentChunk) >= targetLen
       /\ StrLen(Candidate(currentChunk, sentence)) > targetLen

\* the for-of loop over the sentences and the final push
RECURSIVE Accumulate(_, _, _, _, _)
Accumulate(sentences, out, currentChunk, maxLen, targetLen) ==
    IF sentences = <<>>
    THEN (IF Trim(currentChunk) # <<>> THEN Append(out, Trim(currentChunk)) ELSE out)
    ELSE LET sentence == Head(sentences) IN
         IF StrLen(sentence) > maxLen
         THEN Accumulate(Tail(sentences),
                         (IF currentChunk # <<>> THEN Append(out, Trim(currentChunk)) ELSE out)
                             \o HardSplit(sentence, maxLen),
                         <<>>, maxLen, targetLen)
         ELSE IF ClosesChunk(currentChunk, sentence, maxLen, targetLen)
              THEN Accumulate(Tail(sentences), Append(out, Trim(currentChunk)),
                              sentence, maxLen, targetLen)
              ELSE Accumulate(Tail(sentences), out,
                              Candidate(currentChunk, sentence), maxLen, targetLen)

splitTextIntoChunks(text, maxLen, targetLen) ==
    LET normalizedText == NormalizeText(text)
    IN  IF normalizedText = <<>> THEN <<>>
        ELSE Accumulate(TrimAndFilter(SentenceParts(normalizedText)),
                        <<>>, <<>>, maxLen, targetLen)

-----------------------------------------------------------------------------
(* Breadcrumb: LLMHelper.buildBreadcrumbsFromExtraction *)

Newline == << <<"\n", 1>> >>
Bullet == << <<"-", 1>>, <<" ", 1>> >>

\* "Немає попереднього контексту."
NoPreviousContext == << <<"w", 1>>, <<" ", 1>>, <<"w", 1>>, <<" ", 1>>, <<"w", 1>>, <<".", 1>> >>

\* extractedChunk.split("\n"); `cur` is the line being read
RECURSIVE SplitLines(_, _)
SplitLines(text, cur) ==
    IF text = <<>> THEN <<cur>>
    ELSE IF Chr(Head(text)) = "\n"
         THEN <<cur>> \o SplitLines(Drop(text, 1), <<>>)
         ELSE SplitLines(Tail(text), Append(cur, Head(text)))

\* line.replace(/^[-*•]\s*/, "")
StripBullet(line) ==
    IF line # <<>> /\ Chr(Head(line)) = "-"
    THEN DropWhileSpace(Drop(line, 1))
    ELSE line

\* line.startsWith("##") (which line.startsWith("###") implies)
IsHeading(line) ==
    /\ StrLen(line) >= 2
    /\ \A i \in 1..Len(Take(line, 2)) : Chr(Take(line, 2)[i]) = "#"

\* .map(trim).filter(nonempty).map(strip bullet).filter(not heading)
RECURSIVE UsableLines(_)
UsableLines(lines) ==
    IF lines = <<>> THEN <<>>
    ELSE LET trimmed == Trim(Head(lines))
             stripped == StripBullet(trimmed)
         IN  (IF trimmed # <<>> /\ ~IsHeading(stripped) THEN <<stripped>> ELSE <<>>)
             \o UsableLines(Tail(lines))

\* lines.map(l => `- ${l}`).join("\n")
RECURSIVE JoinBulleted(_)
JoinBulleted(lines) ==
    IF lines = <<>> THEN <<>>
    ELSE Bullet \o Head(lines)
         \o (IF Tail(lines) = <<>> THEN <<>> ELSE Newline \o JoinBulleted(Tail(lines)))

\* faulty variant: the slice is missing
FirstLinesUncapped(lines) == lines

\* lines.slice(0, 5)
FirstLines(lines) ==
    SubSeq(lines, 1, IF Len(lines) < BreadcrumbLines THEN Len(lines) ELSE BreadcrumbLines)

buildBreadcrumbsFromExtraction(extractedChunk) ==
    LET lines == UsableLines(SplitLines(extractedChunk, <<>>))
        joined == JoinBulleted(FirstLines(lines))
    IN  IF joined = <<>> THEN NoPreviousContext ELSE joined

-----------------------------------------------------------------------------
(* Values shared by both revisions of processMeetingAudio *)

None == <<>>
Some(x) == <<x>>

\* a JavaScript truthiness test of an optional string (Null stands for undefined)
Truthy(v) == v # Null /\ v # ""

Keys == {"k1"}
Modes == {"auto", "gemini", "local"}

\* what a provider may answer: nothing, a plain line, a heading line only
Answers == { <<>>,
             << <<"w", 1>> >>,
             << <<"#", 2>>, <<" ", 1>>, <<"w", 1>> >> }

EmptyTranscriptError == "Whisper could not recognise speech or the recording is empty"
GeminiKeyNeededError == "A Gemini API key is needed"
TranscriptionFailedError == "Transcription failed"
OllamaFailedError == "Failed to connect to Ollama"
GeminiFailedError == "generateContent rejected"
NoProviderError == "No LLM provider configured"
GeminiKeyRequiredError == "GEMINI_API_KEY_REQUIRED"
AllChunksFailedError == "Chunk processing failed for all parts"

\* fetch(`${ollamaUrl}/api/generate`) of callOllama / callOllamaWithOptions
OllamaGenerate(prompt) ==
    [api |-> "/api/generate", backend |-> "ollama", credential |-> Null, prompt |-> prompt]

\* fetch(`${ollamaUrl}/api/tags`) of fetchOllamaModels
OllamaTags ==
    [api |-> "/api/tags", backend |-> "ollama", credential |-> Null,
     prompt |-> [kind |-> "none"]]

\* generateContent(prompt) on a client made with the key `credential`
GeminiGenerate(credential, prompt) ==
    [api |-> "generateContent", backend |-> "gemini", credential |-> credential,
     prompt |-> prompt]

\* faulty variant: the catch clause reports a fixed message of its own
ProviderErrorGeneric(call) == TranscriptionFailedError

\* the error a failed provider call rejects with
ProviderError(call) ==
    IF call.backend = "ollama" THEN OllamaFailedError ELSE GeminiFailedError

\* chatWithGemini up to its await: the call it issues, or the error it throws
chatWithGemini(prompt, mdl, uo) ==
    IF uo THEN [call |-> Some(OllamaGenerate(prompt)), error |-> Null]
    ELSE IF mdl # Null THEN [call |-> Some(GeminiGenerate(mdl, prompt)), error |-> Null]
    ELSE [call |-> None, error |-> NoProviderError]

\* faulty variant: the catch clause drops the message
FailedResultWithoutError(err) ==
    [success |-> FALSE, transcription |-> <<>>, notes |-> <<>>]

\* the catch clause of processMeetingAudio, and the empty-transcript return
FailedResult(err) ==
    [success |-> FALSE, transcription |-> <<>>, notes |-> <<>>, error |-> err]

-----------------------------------------------------------------------------
(* TranscriptionHelper.transcribeAudio, seen from its caller *)

\* what transcribeAudio returns for a subprocess that exited cleanly with `out`
\* as its transcript text, or throws when execAsync rejected
transcribeAudio(exitedCleanly, out) ==
    IF exitedCleanly
    THEN [ok |-> TRUE, text |-> Trim(out), error |-> Null]
    ELSE [ok |-> FALSE, text |-> <<>>, error |-> TranscriptionFailedError]

-----------------------------------------------------------------------------
(* The gated revision: LLMHelper.processMeetingAudio, lines 229-288 *)

OptionsSet ==
    [mode : Modes \cup {Null},
     allowLongTranscription : BOOLEAN,
     geminiApiKey : Keys \cup {Null},
     transcriptionOverride : {None} \cup {Some(t) : t \in Texts}]

\* the chunked revision takes no options
NoOptions ==
    [mode |-> Null, allowLongTranscription |-> FALSE, geminiApiKey |-> Null,
     transcriptionOverride |-> None]

\* faulty variant: `||` in place of `??`, an empty override string is not taken
UsesOverrideUnlessFalsy(opts) ==
    opts.transcriptionOverride # None /\ opts.transcriptionOverride[1] # <<>>

\* options.transcriptionOverride ?? await transcribeAudio(...): the override is
\* taken unless it is null or undefined
UsesOverride(opts) == opts.transcriptionOverride # None

\* options.mode ?? "auto"
ResolveMode(opts) == IF opts.mode = Null THEN "auto" ELSE opts.mode

\* faulty variant: the confirmation is skipped when the cloud mode was asked for
NeedsConfirmationUnlessCloud(tokenCount, opts) ==
    /\ tokenCount > transcriptionTokenThreshold
    /\ ~opts.allowLongTranscription
    /\ ResolveMode(opts) # "gemini"

\* faulty variant: the threshold is not compared
NeedsConfirmationAlways(tokenCount, opts) == ~opts.allowLongTranscription

\* faulty variant: `>=` in place of `>`
NeedsConfirmationAtThreshold(tokenCount, opts) ==
    tokenCount >= transcriptionTokenThreshold /\ ~opts.allowLongTranscription

\* tokenCount > this.transcriptionTokenThreshold && !options.allowLongTranscription
NeedsConfirmation(tokenCount, opts) ==
    tokenCount > transcriptionTokenThreshold /\ ~opts.allowLongTranscription

\* faulty variant: the credential gate is missing
NeverNeedsCredential(mode, mdl, opts) == FALSE

\* mode === "gemini" && !this.model && !options.geminiApiKey
NeedsCredential(mode, mdl, opts) ==
    mode = "gemini" /\ mdl = Null /\ ~Truthy(opts.geminiApiKey)

\* faulty variant: the gate returns the empty result of the catch clause
ConfirmResultDroppingTranscript(t, tokenCount) ==
    [success |-> FALSE, transcription |-> <<>>, notes |-> <<>>, tokenCount |-> tokenCount,
     requiresAction |-> "confirm-long-transcription"]

ConfirmResult(t, tokenCount) ==
    [success |-> FALSE, transcription |-> t, notes |-> <<>>, tokenCount |-> tokenCount,
     requiresAction |-> "confirm-long-transcription"]

CredentialResult(t, tokenCount) ==
    [success |-> FALSE, transcription |-> t, notes |-> <<>>, tokenCount |-> tokenCount,
     requiresAction |-> "provide-gemini-api-key", error |-> GeminiKeyNeededError]

DoneResult(t, notes, tokenCount) ==
    [success |-> TRUE, transcription |-> t, notes |-> notes, tokenCount |-> tokenCount]

\* buildMeetingPrompt(transcription)
buildMeetingPrompt(t) == [kind |-> "meeting", body |-> t]

\* faulty variant: the client made from the call's key is not stored
RetainedModelDiscarded(mdl, key, geminiModel) == mdl

\* if (!this.model && geminiApiKey) this.model = geminiModel
RetainedModel(mdl, key, geminiModel) ==
    IF mdl = Null /\ Truthy(key) THEN geminiModel ELSE mdl

\* faulty variant: the mode is not looked at, every run goes to chatWithGemini
summarizeTranscriptionIgnoringMode(t, mode, key, mdl, uo, promise) ==
    LET chat == chatWithGemini(buildMeetingPrompt(t), mdl, uo)
    IN  IF chat.call = None
        THEN [pc |-> "thrown", error |-> chat.error, model |-> mdl,
              promise |-> promise, issued |-> <<>>]
        ELSE [pc |-> "calling", error |-> Null, model |-> mdl, promise |-> promise,
              issued |-> chat.call]

\* summarizeTranscription up to its first await: the provider call it issues
\* (call), or the wait for the Ollama initialisation (pc "awaitInit"), or the
\* error it throws; and the fields it writes
summarizeTranscription(t, mode, key, mdl, uo, promise) ==
    LET prompt == buildMeetingPrompt(t)
        geminiModel == IF mdl # Null THEN mdl ELSE IF Truthy(key) THEN key ELSE Null
        chat == chatWithGemini(prompt, mdl, uo)
    IN  IF mode = "local"
        THEN [pc |-> "awaitInit", error |-> Null, model |-> mdl, promise |-> "set",
              issued |-> IF promise = Null THEN <<OllamaTags>> ELSE <<>>]
        ELSE IF mode = "gemini"
        THEN IF geminiModel = Null
             THEN [pc |-> "thrown", error |-> GeminiKeyRequiredError, model |-> mdl,
                   promise |-> promise, issued |-> <<>>]
             ELSE [pc |-> "calling", error |-> Null,
                   model |-> RetainedModel(mdl, key, geminiModel),
                   promise |-> promise,
                   issued |-> <<GeminiGenerate(geminiModel, prompt)>>]
        ELSE IF chat.call = None
             THEN [pc |-> "thrown", error |-> chat.error, model |-> mdl,
                   promise |-> promise, issued |-> <<>>]
             ELSE [pc |-> "calling", error |-> Null, model |-> mdl, promise |-> promise,
                   issued |-> chat.call]

\* faulty variant: the credential gate stands before the confirmation gate
AfterTranscriptionCredentialFirst(t, opts, mdl, uo, promise) ==
    LET tokenCount == estimateUkrainianTokens(t)
        mode == ResolveMode(opts)
        sum == summarizeTranscription(t, mode, opts.geminiApiKey, mdl, uo, promise)
        stay == [model |-> mdl, promise |-> promise, issued |-> <<>>]
    IN  IF IsEmptyTranscription(t)
        THEN stay @@ [pc |-> "returned", result |-> Some(FailedResult(EmptyTranscriptError))]
        ELSE IF NeedsCredential(mode, mdl, opts)
        THEN stay @@ [pc |-> "returned", result |-> Some(CredentialResult(t, tokenCount))]
        ELSE IF NeedsConfirmation(tokenCount, opts)
        THEN stay @@ [pc |-> "returned", result |-> Some(ConfirmResult(t, tokenCount))]
        ELSE IF sum.pc = "thrown"
        THEN [pc |-> "returned", result |-> Some(FailedResult(sum.error)),
              model |-> sum.model, promise |-> sum.promise, issued |-> sum.issued]
        ELSE [pc |-> sum.pc, result |-> None,
              model |-> sum.model, promise |-> sum.promise, issued |-> sum.issued]

\* lines 236-270: what processMeetingAudio does with the transcript it obtained,
\* up to its return or its next await
AfterTranscription(t, opts, mdl, uo, promise) ==
    LET tokenCount == estimateUkrainianTokens(t)
        mode == ResolveMode(opts)
        sum == summarizeTranscription(t, mode, opts.geminiApiKey, mdl, uo, promise)
        stay == [model |-> mdl, promise |-> promise, issued |-> <<>>]
    IN  IF IsEmptyTranscription(t)
        THEN stay @@ [pc |-> "returned", result |-> Some(FailedResult(EmptyTranscriptError))]
        ELSE IF NeedsConfirmation(tokenCount, opts)
        THEN stay @@ [pc |-> "returned", result |-> Some(ConfirmResult(t, tokenCount))]
        ELSE IF NeedsCredential(mode, mdl, opts)
        THEN stay @@ [pc |-> "returned", result |-> Some(CredentialResult(t, tokenCount))]
        ELSE IF sum.pc = "thrown"
        THEN [pc |-> "returned", result |-> Some(FailedResult(sum.error)),
              model |-> sum.model, promise |-> sum.promise, issued |-> sum.issued]
        ELSE [pc |-> sum.pc, result |-> None,
              model |-> sum.model, promise |-> sum.promise, issued |-> sum.issued]

\* the state after the synchronous stretch that `step` describes, for an
\* invocation that had issued the calls `before`
Apply(step, t, before) ==
    /\ transcription' = Some(t)
    /\ pc' = step.pc
    /\ result' = step.result
    /\ model' = step.model
    /\ ollamaInitializationPromise' = step.promise
    /\ calls' = before \o step.issued
    /\ pending' = IF step.pc = "calling" THEN Some(step.issued[Len(step.issued)]) ELSE None
    /\ UNCHANGED useOllama

ResetChunkVars ==
    /\ chunks' = <<>>
    /\ index' = 0
    /\ extractedBlocks' = <<>>
    /\ breadcrumbs' = NoPreviousContext
    /\ sanitizedChunk' = None
    /\ chunkLog' = <<>>

\* a return of processMeetingAudio
Return(r) ==
    /\ pc' = "returned"
    /\ result' = Some(r)
    /\ pending' = None

\* processMeetingAudio(audioBuffer, options) is called: with an override the
\* gates run at once, without one transcribeAudio is awaited
GatedCallWith(optionsSet) ==
    /\ pc = "idle"
    /\ \E opts \in optionsSet :
         /\ pipeline' = "gated"
         /\ options' = opts
         /\ ResetChunkVars
         /\ lastAnswer' = None
         /\ IF UsesOverride(opts)
            THEN /\ transcribeRuns' = 0
                 /\ Apply(AfterTranscription(opts.transcriptionOverride[1], opts, model,
                                             useOllama, ollamaInitializationPromise),
                          opts.transcriptionOverride[1], <<>>)
            ELSE /\ transcribeRuns' = 1
                 /\ pc' = "transcribing"
                 /\ transcription' = None
                 /\ pending' = None
                 /\ calls' = <<>>
                 /\ result' = None
                 /\ UNCHANGED helperVars
    /\ UNCHANGED auxVars

GatedCall == GatedCallWith(OptionsSet)

\* transcribeAudio resolves with one of `outputs`
GatedTranscribedWith(outputs) ==
    /\ pc = "transcribing" /\ pipeline = "gated"
    /\ \E out \in outputs :
         LET t == transcribeAudio(TRUE, out).text
         IN  Apply(AfterTranscription(t, options, model, useOllama,
                                      ollamaInitializationPromise), t, calls)
    /\ UNCHANGED <<pipeline, options, transcribeRuns, lastAnswer, chunkVars>>
    /\ UNCHANGED auxVars

\* transcribeAudio resolves
GatedTranscribed == GatedTranscribedWith(Texts)

\* transcribeAudio rejects: the catch clause
GatedTranscribeFailed ==
    /\ pc = "transcribing" /\ pipeline = "gated"
    /\ Return(FailedResult(transcribeAudio(FALSE, <<>>).error))
    /\ UNCHANGED <<pipeline, options, transcription, calls, transcribeRuns,
                   lastAnswer, helperVars, chunkVars>>
    /\ UNCHANGED auxVars

\* ensureOllamaModelInitialized resolves (initializeOllamaModel catches every
\* error); summarizeTranscription goes on to callOllama(prompt)
OllamaInitSettled ==
    /\ pc = "awaitInit"
    /\ pc' = "calling"
    /\ pending' = Some(OllamaGenerate(buildMeetingPrompt(transcription[1])))
    /\ calls' = Append(calls, OllamaGenerate(buildMeetingPrompt(transcription[1])))
    /\ UNCHANGED <<pipeline, options, transcription, transcribeRuns, lastAnswer, result,
                   helperVars, chunkVars>>
    /\ UNCHANGED auxVars

\* the summarisation call resolves with the provider's text
GatedAnswered ==
    /\ pc = "calling"
    /\ \E notes \in Answers :
         /\ lastAnswer' = Some(notes)
         /\ Return(DoneResult(transcription[1], notes,
                              estimateUkrainianTokens(transcription[1])))
    /\ UNCHANGED <<pipeline, options, transcription, calls, transcribeRuns,
                   helperVars, chunkVars>>
    /\ UNCHANGED auxVars

\* the summarisation call rejects: the catch clause
GatedProviderFailed ==
    /\ pc = "calling"
    /\ Return(FailedResult(ProviderError(pending[1])))
    /\ UNCHANGED <<pipeline, options, transcription, calls, transcribeRuns,
                   lastAnswer, helperVars, chunkVars>>
    /\ UNCHANGED auxVars

-----------------------------------------------------------------------------
(* The chunked revision: LLMHelper.processMeetingAudio, lines 672-775 *)

\* the text that heads the notes when no chunk could be processed
FallbackHeader == << <<"#", 2>>, <<" ", 1>>, <<"w", 1>>, <<"\n", 1>> >>

FallbackResult(t) ==
    [success |-> TRUE, transcription |-> t, notes |-> FallbackHeader \o t,
     error |-> AllChunksFailedError]

SynthesizedResult(t, notes) ==
    [success |-> TRUE, transcription |-> t, notes |-> notes]

sanitizationPrompt(chunk) == [kind |-> "sanitize", body |-> chunk]
extractionPrompt(crumbs, sanitized) ==
    [kind |-> "extract", breadcrumbs |-> crumbs, body |-> sanitized]
synthesisPrompt(blocks) == [kind |-> "synthesis", blocks |-> blocks]

\* `### Блок ${index + 1}\n${extractedChunk}`
Block(number, extractedChunk) == [number |-> number, body |-> extractedChunk]

\* callMeetingLLM up to its await: the call it issues, or the error it throws
callMeetingLLM(prompt, mdl, uo) ==
    IF uo THEN [call |-> Some(OllamaGenerate(prompt)), error |-> Null]
    ELSE chatWithGemini(prompt, mdl, uo)

\* what the catch clause of the chunk loop leaves of chunk i
SkippedChunk(i, crumbs, outcome) ==
    [index |-> i, before |-> crumbs, after |-> crumbs, outcome |-> outcome]

\* faulty variant: no fallback, the synthesis is always asked for
AfterLoopAlwaysSynthesizes(t, blocks, crumbs, log, mdl, uo) ==
    LET synth == callMeetingLLM(synthesisPrompt(blocks), mdl, uo)
        at == [index |-> 0, blocks |-> blocks, breadcrumbs |-> crumbs, log |-> log]
    IN  IF synth.call = None
        THEN at @@ [pc |-> "returned", issued |-> <<>>,
                    result |-> Some(FailedResult(synth.error))]
        ELSE at @@ [pc |-> "synthesizing", issued |-> synth.call, result |-> None]

\* lines 731-759, after the loop: the fallback return, or the synthesis call
AfterLoop(t, blocks, crumbs, log, mdl, uo) ==
    LET synth == callMeetingLLM(synthesisPrompt(blocks), mdl, uo)
        at == [index |-> 0, blocks |-> blocks, breadcrumbs |-> crumbs, log |-> log]
    IN  IF blocks = <<>>
        THEN at @@ [pc |-> "returned", issued |-> <<>>, result |-> Some(FallbackResult(t))]
        ELSE IF synth.call = None
        THEN at @@ [pc |-> "returned", issued |-> <<>>,
                    result |-> Some(FailedResult(synth.error))]
        ELSE at @@ [pc |-> "synthesizing", issued |-> synth.call, result |-> None]

\* the for loop from iteration i on, up to its next await: the sanitize call
\* of the first chunk for which callMeetingLLM does not throw, or what
\* follows the loop
RECURSIVE LoopFrom(_, _, _, _, _, _, _, _)

\* faulty variant: the synthesis is asked for as soon as one block exists
LoopFromSynthesizesEarly(i, chs, t, blocks, crumbs, log, mdl, uo) ==
    LET san == callMeetingLLM(sanitizationPrompt(chs[i + 1]), mdl, uo)
    IN  IF i >= Len(chs) \/ blocks # <<>>
        THEN [AfterLoop(t, blocks, crumbs, log, mdl, uo) EXCEPT !.index = i]
        ELSE IF san.call = None
        THEN LoopFrom(i + 1, chs, t, blocks, crumbs,
                      Append(log, SkippedChunk(i, crumbs, "sanitize-failed")), mdl, uo)
        ELSE [pc |-> "sanitizing", issued |-> san.call, result |-> None, index |-> i,
              blocks |-> blocks, breadcrumbs |-> crumbs, log |-> log]

LoopFrom(i, chs, t, blocks, crumbs, log, mdl, uo) ==
    LET san == callMeetingLLM(sanitizationPrompt(chs[i + 1]), mdl, uo)
    IN  IF i >= Len(chs) THEN [AfterLoop(t, blocks, crumbs, log, mdl, uo) EXCEPT !.index = i]
        ELSE IF san.call = None
        THEN LoopFrom(i + 1, chs, t, blocks, crumbs,
                      Append(log, SkippedChunk(i, crumbs, "sanitize-failed")), mdl, uo)
        ELSE [pc |-> "sanitizing", issued |-> san.call, result |-> None, index |-> i,
              blocks |-> blocks, breadcrumbs |-> crumbs, log |-> log]

\* faulty variant: a chunk that failed is tried once more
ChunkFailedRetriesOnce(i, chs, t, blocks, crumbs, log, mdl, uo, outcome) ==
    LoopFrom(IF \E k \in 1..Len(log) : log[k].index = i THEN i + 1 ELSE i,
             chs, t, blocks, crumbs,
             Append(log, SkippedChunk(i, crumbs, outcome)), mdl, uo)

\* faulty variant: the catch clause resets the breadcrumb
ChunkFailedResetsBreadcrumb(i, chs, t, blocks, crumbs, log, mdl, uo, outcome) ==
    LoopFrom(i + 1, chs, t, blocks, NoPreviousContext,
             Append(log, SkippedChunk(i, crumbs, outcome)), mdl, uo)

\* the catch clause of the loop body (lines 726-728) for chunk i: the error is
\* logged and the loop goes on with the next chunk
ChunkFailed(i, chs, t, blocks, crumbs, log, mdl, uo, outcome) ==
    LoopFrom(i + 1, chs, t, blocks, crumbs,
             Append(log, SkippedChunk(i, crumbs, outcome)), mdl, uo)

\* faulty variant: the block is put in front of the earlier blocks
ChunkExtractedPrepends(i, chs, t, blocks, crumbs, log, mdl, uo, extractedChunk) ==
    LoopFrom(i + 1, chs, t,
             <<Block(i + 1, extractedChunk)>> \o blocks,
             buildBreadcrumbsFromExtraction(extractedChunk),
             Append(log, [index |-> i, before |-> crumbs,
                          after |-> buildBreadcrumbsFromExtraction(extractedChunk),
                          outcome |-> "extracted"]),
             mdl, uo)

\* faulty variant: the breadcrumb is not rebuilt from the new extraction
ChunkExtractedKeepsBreadcrumb(i, chs, t, blocks, crumbs, log, mdl, uo, extractedChunk) ==
    LoopFrom(i + 1, chs, t,
             Append(blocks, Block(i + 1, extractedChunk)),
             crumbs,
             Append(log, [index |-> i, before |-> crumbs, after |-> crumbs,
                          outcome |-> "extracted"]),
             mdl, uo)

\* lines 723-725 for chunk i: the block is pushed and the breadcrumb rebuilt
ChunkExtracted(i, chs, t, blocks, crumbs, log, mdl, uo, extractedChunk) ==
    LoopFrom(i + 1, chs, t,
             Append(blocks, Block(i + 1, extractedChunk)),
             buildBreadcrumbsFromExtraction(extractedChunk),
             Append(log, [index |-> i, before |-> crumbs,
                          after |-> buildBreadcrumbsFromExtraction(extractedChunk),
                          outcome |-> "extracted"]),
             mdl, uo)

\* the state after the synchronous stretch that `step` describes
ApplyChunked(step) ==
    /\ pc' = step.pc
    /\ result' = step.result
    /\ index' = step.index
    /\ extractedBlocks' = step.blocks
    /\ breadcrumbs' = step.breadcrumbs
    /\ chunkLog' = step.log
    /\ calls' = calls \o step.issued
    /\ pending' = IF step.issued = <<>> THEN None ELSE Some(step.issued[1])

\* processMeetingAudio(audioBuffer) is called: transcribeAudio is awaited
ChunkedCall ==
    /\ pc = "idle"
    /\ pipeline' = "chunked"
    /\ options' = NoOptions
    /\ ResetChunkVars
    /\ transcribeRuns' = 1
    /\ lastAnswer' = None
    /\ pc' = "transcribing"
    /\ transcription' = None
    /\ pending' = None
    /\ calls' = <<>>
    /\ result' = None
    /\ UNCHANGED helperVars
    /\ UNCHANGED auxVars

\* transcribeAudio resolves with one of `outputs`: the empty check, the
\* split, the first sanitize call
ChunkedTranscribedWith(outputs) ==
    /\ pc = "transcribing" /\ pipeline = "chunked"
    /\ \E out \in outputs :
         LET t == transcribeAudio(TRUE, out).text
             chs == splitTextIntoChunks(t, maxChunkLength, targetChunkLength)
         IN  /\ transcription' = Some(t)
             /\ IF IsEmptyTranscription(t)
                THEN /\ Return(FailedResult(EmptyTranscriptError))
                     /\ UNCHANGED <<calls, chunkVars>>
                ELSE /\ chunks' = chs
                     /\ sanitizedChunk' = None
                     /\ ApplyChunked(LoopFrom(0, chs, t, <<>>, NoPreviousContext, <<>>,
                                              model, useOllama))
    /\ UNCHANGED <<pipeline, options, transcribeRuns, lastAnswer, helperVars>>
    /\ UNCHANGED auxVars

ChunkedTranscribed == ChunkedTranscribedWith(Texts)

\* transcribeAudio rejects: the outer catch clause
ChunkedTranscribeFailed ==
    /\ pc = "transcribing" /\ pipeline = "chunked"
    /\ Return(FailedResult(transcribeAudio(FALSE, <<>>).error))
    /\ UNCHANGED <<pipeline, options, transcription, calls, transcribeRuns,
                   lastAnswer, helperVars, chunkVars>>
    /\ UNCHANGED auxVars

\* the sanitize call of chunk `index` resolves: the extract call is issued with
\* the breadcrumb in effect (or callMeetingLLM throws and the chunk is skipped)
SanitizeAnswered ==
    /\ pc = "sanitizing"
    /\ \E sanitized \in Answers :
         LET ext == callMeetingLLM(extractionPrompt(breadcrumbs, sanitized),
                                   model, useOllama)
         IN  IF ext.call = None
             THEN /\ sanitizedChunk' = None
                  /\ ApplyChunked(ChunkFailed(index, chunks, transcription[1],
                         extractedBlocks, breadcrumbs, chunkLog, model, useOllama,
                         "extract-failed"))
             ELSE /\ sanitizedChunk' = Some(sanitized)
                  /\ pc' = "extracting"
                  /\ pending' = ext.call
                  /\ calls' = calls \o ext.call
                  /\ UNCHANGED <<result, index, extractedBlocks, breadcrumbs, chunkLog>>
    /\ UNCHANGED <<pipeline, options, transcription, transcribeRuns, lastAnswer, chunks,
                   helperVars>>
    /\ UNCHANGED auxVars

\* the sanitize call of chunk `index` rejects: the chunk's catch clause
SanitizeFailed ==
    /\ pc = "sanitizing"
    /\ sanitizedChunk' = None
    /\ ApplyChunked(ChunkFailed(index, chunks, transcription[1], extractedBlocks,
           breadcrumbs, chunkLog, model, useOllama, "sanitize-failed"))
    /\ UNCHANGED <<pipeline, options, transcription, transcribeRuns, lastAnswer, chunks,
                   helperVars>>
    /\ UNCHANGED auxVars

\* the extract call of chunk `index` resolves: the block is pushed and the
\* breadcrumb rebuilt
ExtractAnswered ==
    /\ pc = "extracting"
    /\ \E extractedChunk \in Answers :
         /\ sanitizedChunk' = None
         /\ ApplyChunked(ChunkExtracted(index, chunks, transcription[1], extractedBlocks,
                breadcrumbs, chunkLog, model, useOllama, extractedChunk))
    /\ UNCHANGED <<pipeline, options, transcription, transcribeRuns, lastAnswer, chunks,
                   helperVars>>
    /\ UNCHANGED auxVars

\* the extract call of chunk `index` rejects: the chunk's catch clause
ExtractFailed ==
    /\ pc = "extracting"
    /\ sanitizedChunk' = None
    /\ ApplyChunked(ChunkFailed(index, chunks, transcription[1], extractedBlocks,
           breadcrumbs, chunkLog, model, useOllama, "extract-failed"))
    /\ UNCHANGED <<pipeline, options, transcription, transcribeRuns, lastAnswer, chunks,
                   helperVars>>
    /\ UNCHANGED auxVars

\* the synthesis call resolves
SynthesisAnswered ==
    /\ pc = "synthesizing"
    /\ \E notes \in Answers :
         /\ lastAnswer' = Some(notes)
         /\ Return(SynthesizedResult(transcription[1], notes))
    /\ UNCHANGED <<pipeline, options, transcription, calls, transcribeRuns,
                   helperVars, chunkVars>>
    /\ UNCHANGED auxVars

\* the synthesis call rejects: the outer catch clause
SynthesisFailed ==
    /\ pc = "synthesizing"
    /\ Return(FailedResult(ProviderError(pending[1])))
    /\ UNCHANGED <<pipeline, options, transcription, calls, transcribeRuns,
                   lastAnswer, helperVars, chunkVars>>
    /\ UNCHANGED auxVars

-----------------------------------------------------------------------------
(* The helper as constructed, and the specification *)

\* the caller has taken the result: the locals of the invocation are gone,
\* the fields of the helper stay
ResultDelivered ==
    /\ pc = "returned"
    /\ pc' = "idle"
    /\ pipeline' = "gated"
    /\ options' = NoOptions
    /\ transcription' = None
    /\ pending' = None
    /\ calls' = <<>>
    /\ transcribeRuns' = 0
    /\ lastAnswer' = None
    /\ result' = None
    /\ ResetChunkVars
    /\ UNCHANGED helperVars
    /\ UNCHANGED auxVars

\* new LLMHelper(apiKey, useOllama): Ollama mode starts the model
\* initialisation; otherwise a key is required
Constructed ==
    /\ \/ /\ useOllama = TRUE
          /\ model = Null
          /\ ollamaInitializationPromise = "set"
       \/ /\ useOllama = FALSE
          /\ model \in Keys
          /\ ollamaInitializationPromise = Null
    /\ pipeline = "gated"
    /\ pc = "idle"
    /\ options = NoOptions
    /\ transcription = None
    /\ pending = None
    /\ calls = <<>>
    /\ transcribeRuns = 0
    /\ lastAnswer = None
    /\ chunks = <<>>
    /\ index = 0
    /\ extractedBlocks = <<>>
    /\ breadcrumbs = NoPreviousContext
    /\ sanitizedChunk = None
    /\ chunkLog = <<>>
    /\ result = None

\* no call of splitTextIntoChunks is under study
NoSplitArgs == [text |-> <<>>, maxLen |-> 0, targetLen |-> 0]
SplitIdle == splitArgs = NoSplitArgs /\ splitResult = None

\* no call of transcribeAudio is under study
TranscriberIdle ==
    /\ revision = Null
    /\ tpc = "idle"
    /\ tempFile = FALSE
    /\ pythonCommand = Null
    /\ execution = None
    /\ transcribeOutcome = None

\* "gemma:latest" is the model of a helper built without a model name
ModelNames == {"gemma:latest", "llama3", "mistral"}

\* "http://localhost:11434" is the endpoint of a helper built without a url
Urls == {"http://localhost:11434", "http://remote:11434"}

\* no switchToOllama or switchToGemini call was made
NoSwitch == [op |-> "none", named |-> FALSE, withUrl |-> FALSE]

\* no call of initializeOllamaModel is under study
OllamaIdle ==
    /\ ollamaModel = "gemma:latest"
    /\ ollamaUrl = "http://localhost:11434"
    /\ ipc = "idle"
    /\ configuredModel = Null
    /\ availableModels = None
    /\ fallbackModels = None
    /\ lastSwitch = NoSwitch
    /\ savedOllama = None

\* no call of estimateUkrainianTokens is under study
EstimateIdle == estimateArgs = [a |-> <<>>, b |-> <<>>] /\ estimateResult = None

\* no call of buildBreadcrumbsFromExtraction is under study
BreadcrumbIdle == extraction = <<>> /\ breadcrumbResult = None

\* the startRecording calls of one AudioRecorder
Recordings == 1..MaxRecordings

\* a startRecording call that was not made
Unused ==
    [phase |-> "unused", stream |-> "none", call |-> <<>>, initialResult |-> <<>>,
     reported |-> <<>>, stoppedBy |-> 0]

\* the AudioRecorder as mounted
RecorderIdle ==
    /\ isRecording = FALSE
    /\ isProcessing = FALSE
    /\ mediaRecorderRef = 0
    /\ streamRef = 0
    /\ recorders = [r \in Recordings |-> Unused]

UnitsIdle == SplitIdle /\ EstimateIdle /\ BreadcrumbIdle /\ RecorderIdle

Init == Constructed /\ UnitsIdle /\ TranscriberIdle /\ OllamaIdle

Next ==
    \/ GatedCall
    \/ GatedTranscribed
    \/ GatedTranscribeFailed
    \/ OllamaInitSettled
    \/ GatedAnswered
    \/ GatedProviderFailed
    \/ ChunkedCall
    \/ ChunkedTranscribed
    \/ ChunkedTranscribeFailed
    \/ SanitizeAnswered
    \/ SanitizeFailed
    \/ ExtractAnswered
    \/ ExtractFailed
    \/ SynthesisAnswered
    \/ SynthesisFailed
    \/ ResultDelivered

Spec == Init /\ [][Next]_vars

\* the transcripts of the runs whose termination is studied: none, blank,
\* one word, two sentences over the target length, one sentence that is
\* split in three
LiveTexts ==
    { <<>>,
      << <<" ", 1>> >>,
      << <<"w", 1>> >>,
      << <<",", BigRun>>, <<".", 1>>, <<",", BigRun>> >>,
      << <<",", BigRun>>, <<",", BigRun>>, <<",", BigRun>> >> }

LiveOptionsSet ==
    [mode : Modes \cup {Null},
     allowLongTranscription : BOOLEAN,
     geminiApiKey : Keys \cup {Null},
     transcriptionOverride : {None} \cup {Some(t) : t \in LiveTexts}]

LiveGatedCall == GatedCallWith(LiveOptionsSet)
LiveGatedTranscribed == GatedTranscribedWith(LiveTexts)
LiveChunkedTranscribed == ChunkedTranscribedWith(LiveTexts)

\* an awaited subprocess or provider call completes or fails
Settles ==
    \/ LiveGatedTranscribed
    \/ GatedTranscribeFailed
    \/ OllamaInitSettled
    \/ GatedAnswered
    \/ GatedProviderFailed
    \/ LiveChunkedTranscribed
    \/ ChunkedTranscribeFailed
    \/ SanitizeAnswered
    \/ SanitizeFailed
    \/ ExtractAnswered
    \/ ExtractFailed
    \/ SynthesisAnswered
    \/ SynthesisFailed

LiveNext ==
    \/ LiveGatedCall
    \/ ChunkedCall
    \/ ResultDelivered
    \/ Settles

\* processMeetingAudio when every awaited promise settles
LiveSpec == Init /\ [][LiveNext]_vars /\ WF_vars(Settles)

-----------------------------------------------------------------------------
(* splitTextIntoChunks on its own: any text, any maxLen >= targetLen >= 1 *)

SplitAlphabet == {<<"w", 1>>, <<" ", 1>>, <<".", 1>>}
SplitTexts == SeqsUpTo(SplitAlphabet, MaxSplitRuns)

SplitArgsSet ==
    {[text |-> t, maxLen |-> m, targetLen |-> g] :
        t \in SplitTexts, m \in 1..MaxSplitLen, g \in 1..MaxSplitLen}

SplitInit ==
    /\ Constructed
    /\ splitArgs \in {a \in SplitArgsSet : a.maxLen >= a.targetLen}
    /\ splitResult = None
    /\ EstimateIdle
    /\ BreadcrumbIdle
    /\ RecorderIdle
    /\ TranscriberIdle
    /\ OllamaIdle

\* this.splitTextIntoChunks(text, maxChunkLength, targetChunkLength) returns
SplitCalled ==
    /\ splitResult = None
    /\ splitResult' = Some(splitTextIntoChunks(splitArgs.text, splitArgs.maxLen,
                                               splitArgs.targetLen))
    /\ UNCHANGED <<splitArgs, estimateVars, breadcrumbVars, recorderVars, meetingVars,
                   transcriberVars, ollamaVars>>

SplitNext == SplitCalled

SplitSpec == SplitInit /\ [][SplitNext]_vars

-----------------------------------------------------------------------------
(* estimateUkrainianTokens on its own: any two texts a and b *)

EstimateAlphabet ==
    {<<"w", 2>>, <<"-", 1>>, <<" ", 1>>, <<"\n", 1>>, <<".", 2>>, <<",", 1>>}
EstimateTexts == SeqsUpTo(EstimateAlphabet, MaxEstimateRuns)

EstimateInit ==
    /\ Constructed
    /\ estimateArgs \in [a : EstimateTexts, b : EstimateTexts]
    /\ estimateResult = None
    /\ SplitIdle
    /\ BreadcrumbIdle
    /\ RecorderIdle
    /\ TranscriberIdle
    /\ OllamaIdle

\* this.estimateUkrainianTokens(a) and this.estimateUkrainianTokens(a + b) return
EstimateCalled ==
    /\ estimateResult = None
    /\ estimateResult' =
           Some([a |-> estimateUkrainianTokens(estimateArgs.a),
                 ab |-> estimateUkrainianTokens(estimateArgs.a \o estimateArgs.b)])
    /\ UNCHANGED <<estimateArgs, splitVars, breadcrumbVars, recorderVars, meetingVars,
                   transcriberVars, ollamaVars>>

EstimateNext == EstimateCalled

EstimateSpec == EstimateInit /\ [][EstimateNext]_vars

-----------------------------------------------------------------------------
(* buildBreadcrumbsFromExtraction on its own: any extraction output of up  *)
(* to MaxExtractionLines lines                                              *)

\* the lines an extraction output is made of: a bulleted line, a heading, a
\* blank line, a bulleted heading, an indented line that begins with one "#"
ExtractionLines ==
    { << <<"-", 1>>, <<" ", 2>>, <<"w", 1>> >>,
      << <<"#", 2>>, <<" ", 1>>, <<"w", 1>> >>,
      << <<" ", 1>> >>,
      << <<"-", 1>>, <<" ", 1>>, <<"#", 3>>, <<"w", 1>> >>,
      << <<" ", 1>>, <<"#", 1>>, <<" ", 1>>, <<"w", 1>> >> }

\* lines.join("\n")
RECURSIVE JoinLines(_)
JoinLines(lines) ==
    IF lines = <<>> THEN <<>>
    ELSE Head(lines) \o (IF Tail(lines) = <<>> THEN <<>> ELSE Newline \o JoinLines(Tail(lines)))

BreadcrumbInit ==
    /\ Constructed
    /\ extraction \in SeqsUpTo(ExtractionLines, MaxExtractionLines)
    /\ breadcrumbResult = None
    /\ SplitIdle
    /\ EstimateIdle
    /\ RecorderIdle
    /\ TranscriberIdle
    /\ OllamaIdle

\* this.buildBreadcrumbsFromExtraction(extractedChunk) returns
BreadcrumbBuilt ==
    /\ breadcrumbResult = None
    /\ breadcrumbResult' = Some(buildBreadcrumbsFromExtraction(JoinLines(extraction)))
    /\ UNCHANGED <<extraction, splitVars, estimateVars, recorderVars, meetingVars,
                   transcriberVars, ollamaVars>>

BreadcrumbNext == BreadcrumbBuilt

BreadcrumbSpec == BreadcrumbInit /\ [][BreadcrumbNext]_vars

-----------------------------------------------------------------------------
(* TranscriptionHelper.transcribeAudio on its own, in its three revisions:  *)
(*   "whisper"     electron/TranscriptionHelper.ts, lines 18-79             *)
(*   "stdout"      electron/LLMHelper.ts, lines 1228-1265                   *)
(*   "recovering"  electron/LLMHelper.ts, lines 1102-1154                   *)

Revisions == {"whisper", "stdout", "recovering"}

OutAlphabet == {<<"w", 1>>, <<" ", 1>>, <<"w", TRANSCRIPTION_MAX_BUFFER_BYTES>>}
OutTexts == SeqsUpTo(OutAlphabet, MaxOutRuns)

\* what the subprocess may do: its exit status, what it printed, and (the
\* whisper command line only) the .txt file it wrote
Executions(rev) ==
    {[exit |-> e, stdout |-> o, txt |-> "none", txtContent |-> <<>>] :
        e \in {0, 1}, o \in OutTexts}
    \cup (IF rev = "whisper"
          THEN {[exit |-> e, stdout |-> <<>>, txt |-> f, txtContent |-> o] :
                   e \in {0, 1}, f \in {"expected", "alternative"}, o \in OutTexts}
          ELSE {})

\* the transcript the subprocess produced
Written(proc) == IF proc.txt = "none" THEN proc.stdout ELSE proc.txtContent

MaxBufferMessage == "stdout maxBuffer length exceeded"
CommandFailedMessage == "Command failed"
EmptyResultMessage == "Transcription result is empty"
WriteFileMessage == "writeFile failed"
\* "Transcription failed. Error: " of the recovering revision
FailedPrefix == "Transcription failed. Error: "
\* "Transcription failed. Make sure FFmpeg is installed ... Error: "
FailedFFmpegPrefix == "Transcription failed. Make sure FFmpeg is installed. Error: "

Returned(text) == [kind |-> "returned", text |-> text, error |-> [prefix |-> "", message |-> ""]]
Thrown(prefix, message) ==
    [kind |-> "thrown", text |-> <<>>, error |-> [prefix |-> prefix, message |-> message]]

\* promisify(exec)(command, {maxBuffer}): output beyond maxBuffer is cut off,
\* the child killed and the promise rejected; a non-zero exit rejects as well;
\* a rejection carries the captured output as error.stdout
execAsync(proc, maxBuffer) ==
    IF StrLen(proc.stdout) > maxBuffer
    THEN [rejected |-> TRUE, stdout |-> Take(proc.stdout, maxBuffer),
          message |-> MaxBufferMessage]
    ELSE IF proc.exit # 0
    THEN [rejected |-> TRUE, stdout |-> proc.stdout, message |-> CommandFailedMessage]
    ELSE [rejected |-> FALSE, stdout |-> proc.stdout, message |-> ""]

validateOutput(stdout) ==
    IF Trim(stdout) = <<>> THEN Thrown("", EmptyResultMessage) ELSE Returned(Trim(stdout))

\* faulty variant: output captured from a failed process is never used
RecoverableNever(stdout) == FALSE

\* error.stdout && error.stdout.toString().trim().length > 0
Recoverable(stdout) == stdout # <<>> /\ StrLen(Trim(stdout)) > 0

\* the try block runs execAsync and validateOutput; the catch clause takes
\* what either threw: only a rejection of execAsync carries error.stdout
runTranscriptionCommand(proc) ==
    LET e == execAsync(proc, TRANSCRIPTION_MAX_BUFFER_BYTES)
        tried == IF e.rejected THEN Thrown("", e.message) ELSE validateOutput(e.stdout)
    IN  IF tried.kind = "returned" THEN tried
        ELSE IF e.rejected /\ Recoverable(e.stdout) THEN validateOutput(e.stdout)
        ELSE Thrown(FailedPrefix, tried.error.message)

\* lines 1243-1258 of the stdout revision
transcribeFromStdout(proc) ==
    LET e == execAsync(proc, DefaultMaxBuffer)
    IN  IF e.rejected THEN Thrown(FailedFFmpegPrefix, e.message)
        ELSE Returned(Trim(e.stdout))

\* lines 38-72 of the whisper revision: the .txt file, else stdout
transcribeFromWhisper(proc) ==
    LET e == execAsync(proc, DefaultMaxBuffer)
    IN  IF e.rejected THEN Thrown(FailedFFmpegPrefix, e.message)
        ELSE IF proc.txt # "none" THEN Returned(Trim(proc.txtContent))
        ELSE Returned(Trim(e.stdout))

\* what transcribeAudio makes of the ended subprocess
AfterExecution(rev, proc) ==
    IF rev = "recovering" THEN runTranscriptionCommand(proc)
    ELSE IF rev = "stdout" THEN transcribeFromStdout(proc)
    ELSE transcribeFromWhisper(proc)

\* faulty variant: the finally clause is missing
FinallyMissing(exists) == exists

\* finally { if (fs.existsSync(tempFilePath)) fs.unlinkSync(tempFilePath) }:
\* whether the file exists afterwards
Finally(exists) == IF exists THEN FALSE ELSE exists

TranscribeInit ==
    /\ Constructed
    /\ UnitsIdle
    /\ OllamaIdle
    /\ revision \in Revisions
    /\ tpc = "idle"
    /\ tempFile = FALSE
    /\ pythonCommand = Null
    /\ execution = None
    /\ transcribeOutcome = None

\* transcribeAudio(audioBuffer) is called: writeFileAsync is awaited
TranscribeAudioCalled ==
    /\ tpc \in {"idle", "returned", "thrown"}
    /\ tpc' = "writing"
    /\ tempFile' = FALSE
    /\ pythonCommand' = Null
    /\ execution' = None
    /\ transcribeOutcome' = None
    /\ UNCHANGED <<revision, meetingVars, unitVars, ollamaVars>>

\* writeFileAsync resolves: the recovering revision looks for the interpreter,
\* the others start the subprocess
WriteFileDone ==
    /\ tpc = "writing"
    /\ tempFile' = TRUE
    /\ tpc' = IF revision = "recovering" THEN "resolving" ELSE "running"
    /\ UNCHANGED <<revision, pythonCommand, execution, transcribeOutcome,
                   meetingVars, unitVars, ollamaVars>>

\* writeFileAsync rejects, having created the file or not: the finally clause
\* runs, and the error leaves (wrapped by the catch clause of the older revisions)
WriteFileFailed ==
    /\ tpc = "writing"
    /\ \E created \in BOOLEAN : tempFile' = Finally(created)
    /\ tpc' = "thrown"
    /\ transcribeOutcome' =
           Some(IF revision = "recovering" THEN Thrown("", WriteFileMessage)
                ELSE Thrown(FailedFFmpegPrefix, WriteFileMessage))
    /\ UNCHANGED <<revision, pythonCommand, execution, meetingVars, unitVars, ollamaVars>>

\* resolvePythonCommand returns: a candidate that ran, or "python" when none
\* did; it throws nothing
PythonResolved ==
    /\ tpc = "resolving"
    /\ pythonCommand' \in {"py", "python3", "python"}
    /\ tpc' = "running"
    /\ UNCHANGED <<revision, tempFile, execution, transcribeOutcome, meetingVars, unitVars, ollamaVars>>

\* the subprocess ended: transcribeAudio returns or throws, through its
\* finally clause
ProcessEnded ==
    /\ tpc = "running"
    /\ \E proc \in Executions(revision) :
         /\ execution' = Some(proc)
         /\ transcribeOutcome' = Some(AfterExecution(revision, proc))
         /\ tpc' = AfterExecution(revision, proc).kind
    /\ tempFile' = Finally(tempFile)
    /\ UNCHANGED <<revision, pythonCommand, meetingVars, unitVars, ollamaVars>>

TranscribeNext ==
    \/ TranscribeAudioCalled
    \/ WriteFileDone
    \/ WriteFileFailed
    \/ PythonResolved
    \/ ProcessEnded

TranscribeSpec == TranscribeInit /\ [][TranscribeNext]_vars

-----------------------------------------------------------------------------
(* LLMHelper.initializeOllamaModel on its own, lines 121-151 *)

\* the lists of model names without repetition, up to MaxModels long
ModelLists ==
    {l \in SeqsUpTo(ModelNames, MaxModels) :
        \A i, j \in 1..Len(l) : i # j => l[i] # l[j]}

\* what GET /api/tags may come to: a failure, or a list of models
TagsResponses ==
    {[ok |-> FALSE, models |-> <<>>]} \cup {[ok |-> TRUE, models |-> l] : l \in ModelLists}

\* fetchOllamaModels: the names listed, and [] for every failure
fetchOllamaModels(response) == IF response.ok THEN response.models ELSE <<>>

\* availableModels.includes(name)
Includes(models, name) == \E i \in 1..Len(models) : models[i] = name

\* lines 130-133: the first available model unless the current one is listed
SelectModel(models, current) == IF Includes(models, current) THEN current ELSE models[1]

\* lines 142-146: the catch clause takes the first model of a new listing
FallbackModel(models, current) == IF Len(models) > 0 THEN models[1] ELSE current

\* a helper built for Ollama with any model name
OllamaInitInit ==
    /\ Constructed
    /\ UnitsIdle
    /\ TranscriberIdle
    /\ ollamaModel \in ModelNames
    /\ ollamaUrl = "http://localhost:11434"
    /\ lastSwitch = NoSwitch
    /\ savedOllama = None
    /\ ipc = "idle"
    /\ configuredModel = Null
    /\ availableModels = None
    /\ fallbackModels = None

\* initializeOllamaModel() is called: fetchOllamaModels is awaited
InitializeOllamaModelCalled ==
    /\ ipc \in {"idle", "done"}
    /\ ipc' = "fetching"
    /\ configuredModel' = ollamaModel
    /\ availableModels' = None
    /\ fallbackModels' = None
    /\ UNCHANGED <<ollamaModel, meetingVars, unitVars, transcriberVars,
                   ollamaUrl, lastSwitch, savedOllama>>

\* fetchOllamaModels returns: nothing found ends the call, otherwise the
\* model is selected and the test call awaited
ModelsFetchedWith(responses) ==
    /\ ipc = "fetching"
    /\ \E response \in responses :
         LET models == fetchOllamaModels(response)
         IN  /\ availableModels' = Some(models)
             /\ IF Len(models) = 0
                THEN ipc' = "done" /\ UNCHANGED ollamaModel
                ELSE ipc' = "testing" /\ ollamaModel' = SelectModel(models, ollamaModel)
    /\ UNCHANGED <<configuredModel, fallbackModels, meetingVars, unitVars, transcriberVars,
                   ollamaUrl, lastSwitch, savedOllama>>

ModelsFetched == ModelsFetchedWith(TagsResponses)

\* callOllama("Hello") resolves
TestCallAnswered ==
    /\ ipc = "testing"
    /\ ipc' = "done"
    /\ UNCHANGED <<ollamaModel, configuredModel, availableModels, fallbackModels,
                   meetingVars, unitVars, transcriberVars,
                   ollamaUrl, lastSwitch, savedOllama>>

\* callOllama("Hello") rejects: the catch clause awaits fetchOllamaModels again
TestCallFailed ==
    /\ ipc = "testing"
    /\ ipc' = "fallback"
    /\ UNCHANGED <<ollamaModel, configuredModel, availableModels, fallbackModels,
                   meetingVars, unitVars, transcriberVars,
                   ollamaUrl, lastSwitch, savedOllama>>

\* the second fetchOllamaModels returns
FallbackFetchedWith(responses) ==
    /\ ipc = "fallback"
    /\ \E response \in responses :
         /\ fallbackModels' = Some(fetchOllamaModels(response))
         /\ ollamaModel' = FallbackModel(fetchOllamaModels(response), ollamaModel)
    /\ ipc' = "done"
    /\ UNCHANGED <<configuredModel, availableModels, meetingVars, unitVars, transcriberVars,
                   ollamaUrl, lastSwitch, savedOllama>>

FallbackFetched == FallbackFetchedWith(TagsResponses)

OllamaInitNext ==
    \/ InitializeOllamaModelCalled
    \/ ModelsFetched
    \/ TestCallAnswered
    \/ TestCallFailed
    \/ FallbackFetched

OllamaInitSpec == OllamaInitInit /\ [][OllamaInitNext]_vars

-----------------------------------------------------------------------------
(* AudioRecorder (src/components/AudioRecorder.tsx): the Record / Stop      *)
(* button, startRecording, stopRecording and the onstop handler of each     *)
(* recorder, with transcribeAndAnalyze served by the gated                  *)
(* processMeetingAudio                                                      *)

\* what a recording may be transcribed to: nothing, a short text, a text
\* over the token threshold
RecordedTexts == { <<>>, << <<"w", 1>> >>, << <<",", BigRun>>, <<"w", 1>> >> }

\* { mode: 'auto' }
InitialOptions ==
    [mode |-> "auto", allowLongTranscription |-> FALSE, geminiApiKey |-> Null,
     transcriptionOverride |-> None]

\* the options of the three follow-up calls
FollowUpOptions(mode, apiKey, initialResult) ==
    [mode |-> mode, allowLongTranscription |-> TRUE, geminiApiKey |-> apiKey,
     transcriptionOverride |-> Some(initialResult.transcription)]

\* window.electronAPI.transcribeAndAnalyze(arrayBuffer, options): the results
\* processMeetingAudio(audioBuffer, options) may resolve with on a helper
\* whose fields are mdl, uo and promise, each with the fields it leaves
transcribeAndAnalyze(opts, mdl, uo, promise) ==
    LET Ended(t) ==
            LET step == AfterTranscription(t, opts, mdl, uo, promise)
                call == IF step.pc = "awaitInit" THEN OllamaGenerate(buildMeetingPrompt(t))
                        ELSE step.issued[Len(step.issued)]
                left == [model |-> step.model, promise |-> step.promise]
            IN  IF step.pc = "returned"
                THEN {left @@ [result |-> step.result[1]]}
                ELSE {left @@ [result |-> DoneResult(t, notes, estimateUkrainianTokens(t))] :
                         notes \in Answers}
                     \cup {left @@ [result |-> FailedResult(ProviderError(call))]}
    IN  IF UsesOverride(opts)
        THEN Ended(opts.transcriptionOverride[1])
        ELSE UNION {Ended(transcribeAudio(TRUE, out).text) : out \in RecordedTexts}
             \cup {[model |-> mdl, promise |-> promise,
                    result |-> FailedResult(transcribeAudio(FALSE, <<>>).error)]}

\* onResult({transcription, notes}) and onResult({error}); `from` is the
\* result whose error is reported, if the error is one
ReportNotes(res) == [kind |-> "notes", from |-> Some(res)]
ReportError(res) == [kind |-> "error", from |-> Some(res)]
ReportFixedError == [kind |-> "error", from |-> None]

\* the button shown is "Record Audio" and it is not disabled
RecordButtonEnabled == ~isRecording /\ ~isProcessing

\* a click on "Record Audio": startRecording up to await getDisplayMedia
StartClicked ==
    /\ RecordButtonEnabled
    /\ \E r \in Recordings :
         /\ recorders[r].phase = "unused"
         /\ \A q \in 1..(r - 1) : recorders[q].phase # "unused"
         /\ recorders' = [recorders EXCEPT ![r].phase = "requesting"]
    /\ UNCHANGED <<isRecording, isProcessing, mediaRecorderRef, streamRef>>
    /\ UNCHANGED <<splitVars, estimateVars, breadcrumbVars, meetingVars, transcriberVars,
                   ollamaVars>>

\* getDisplayMedia settles: with an audio track the recorder is started,
\* without one the stream is stopped, and a rejection is caught
DisplayMediaSettled ==
    /\ \E r \in Recordings, outcome \in {"audio", "noAudio", "rejected"} :
         /\ recorders[r].phase = "requesting"
         /\ IF outcome = "audio"
            THEN /\ streamRef' = r
                 /\ mediaRecorderRef' = r
                 /\ isRecording' = TRUE
                 /\ recorders' = [recorders EXCEPT ![r].phase = "recording",
                                                     ![r].stream = "live"]
            ELSE /\ recorders' = [recorders EXCEPT
                                      ![r].phase = "aborted",
                                      ![r].stream = IF outcome = "noAudio" THEN "stopped"
                                                    ELSE "none"]
                 /\ UNCHANGED <<streamRef, mediaRecorderRef, isRecording>>
    /\ UNCHANGED isProcessing
    /\ UNCHANGED <<splitVars, estimateVars, breadcrumbVars, meetingVars, transcriberVars,
                   ollamaVars>>

\* mediaRecorderRef.current && mediaRecorderRef.current.state !== 'inactive'
CanStop == mediaRecorderRef # 0 /\ recorders[mediaRecorderRef].phase = "recording"

\* stopRecording(): the recorder of the ref is stopped, its stop event is queued
stopRecording(recs) ==
    IF CanStop THEN [recs EXCEPT ![mediaRecorderRef].phase = "stopping"] ELSE recs

\* a click on "Stop Audio", the button shown while isRecording
StopClicked ==
    /\ isRecording
    /\ CanStop
    /\ recorders' = stopRecording(recorders)
    /\ isRecording' = FALSE
    /\ UNCHANGED <<isProcessing, mediaRecorderRef, streamRef>>
    /\ UNCHANGED <<splitVars, estimateVars, breadcrumbVars, meetingVars, transcriberVars,
                   ollamaVars>>

\* the user ends the sharing of a display stream: onended calls stopRecording()
SharingEnded ==
    /\ \E r \in Recordings :
         /\ recorders[r].stream = "live"
         /\ recorders' = [stopRecording(recorders) EXCEPT ![r].stream = "ended"]
    /\ isRecording' = IF CanStop THEN FALSE ELSE isRecording
    /\ UNCHANGED <<isProcessing, mediaRecorderRef, streamRef>>
    /\ UNCHANGED <<splitVars, estimateVars, breadcrumbVars, meetingVars, transcriberVars,
                   ollamaVars>>

\* the stop event of a recorder: onstop up to await blob.arrayBuffer()
OnStop ==
    /\ \E r \in Recordings :
         /\ recorders[r].phase = "stopping"
         /\ recorders' = [recorders EXCEPT ![r].phase = "buffering"]
    /\ isProcessing' = TRUE
    /\ UNCHANGED <<isRecording, mediaRecorderRef, streamRef>>
    /\ UNCHANGED <<splitVars, estimateVars, breadcrumbVars, meetingVars, transcriberVars,
                   ollamaVars>>

\* blob.arrayBuffer() resolves: the initial transcribeAndAnalyze call is made
InitialCalled ==
    /\ \E r \in Recordings :
         /\ recorders[r].phase = "buffering"
         /\ recorders' = [recorders EXCEPT ![r].phase = "initial",
                                             ![r].call = Some(InitialOptions)]
    /\ UNCHANGED <<isRecording, isProcessing, mediaRecorderRef, streamRef>>
    /\ UNCHANGED <<splitVars, estimateVars, breadcrumbVars, meetingVars, transcriberVars,
                   ollamaVars>>

\* the handler of recorder r reports and leaves through its finally clause:
\* isProcessing is reset and the stream of streamRef, if any, is stopped
HandlerEnds(r, report) ==
    LET ended == [recorders EXCEPT ![r].phase = "finished", ![r].call = None,
                                   ![r].reported = Some(report)]
    IN  /\ recorders' = IF streamRef # 0
                        THEN [ended EXCEPT ![streamRef].stream = "stopped",
                                           ![streamRef].stoppedBy = r]
                        ELSE ended
        /\ isProcessing' = FALSE
        /\ streamRef' = 0

\* the handler of recorder r makes a follow-up call
FollowUpCalled(r, initialResult, opts) ==
    /\ recorders' = [recorders EXCEPT ![r].phase = "followUp", ![r].call = Some(opts),
                                       ![r].initialResult = Some(initialResult)]
    /\ UNCHANGED <<isProcessing, streamRef>>

\* lines 57-140: the handler of recorder r goes on with the result of the
\* initial call, the answer to window.confirm and the text typed at window.prompt
AfterInitialResult(r, initialResult, shouldUseGemini, apiKey) ==
    IF initialResult.success
    THEN HandlerEnds(r, ReportNotes(initialResult))
    ELSE IF "requiresAction" \in DOMAIN initialResult
            /\ initialResult.requiresAction = "confirm-long-transcription"
    THEN IF shouldUseGemini
         THEN FollowUpCalled(r, initialResult, FollowUpOptions("gemini", apiKey, initialResult))
         ELSE FollowUpCalled(r, initialResult, FollowUpOptions("local", Null, initialResult))
    ELSE IF "requiresAction" \in DOMAIN initialResult
            /\ initialResult.requiresAction = "provide-gemini-api-key"
    THEN IF ~Truthy(apiKey)
         THEN HandlerEnds(r, ReportFixedError)
         ELSE FollowUpCalled(r, initialResult, FollowUpOptions("gemini", apiKey, initialResult))
    ELSE HandlerEnds(r, ReportError(initialResult))

\* the initial call settles
InitialReturned ==
    /\ \E r \in Recordings :
         /\ recorders[r].phase = "initial"
         /\ \/ /\ HandlerEnds(r, ReportFixedError)
               /\ UNCHANGED <<model, ollamaInitializationPromise>>
            \/ \E ended \in transcribeAndAnalyze(recorders[r].call[1], model, useOllama,
                                                  ollamaInitializationPromise),
                  shouldUseGemini \in BOOLEAN, apiKey \in Keys \cup {Null} :
                  /\ model' = ended.model
                  /\ ollamaInitializationPromise' = ended.promise
                  /\ AfterInitialResult(r, ended.result, shouldUseGemini, apiKey)
    /\ UNCHANGED <<isRecording, mediaRecorderRef, useOllama, runVars, chunkVars>>
    /\ UNCHANGED <<splitVars, estimateVars, breadcrumbVars, transcriberVars, ollamaVars>>

\* lines 84-93, 102-111, 128-137: a follow-up call settles
FollowUpReturned ==
    /\ \E r \in Recordings :
         /\ recorders[r].phase = "followUp"
         /\ \/ /\ HandlerEnds(r, ReportFixedError)
               /\ UNCHANGED <<model, ollamaInitializationPromise>>
            \/ \E ended \in transcribeAndAnalyze(recorders[r].call[1], model, useOllama,
                                                  ollamaInitializationPromise) :
                  /\ model' = ended.model
                  /\ ollamaInitializationPromise' = ended.promise
                  /\ HandlerEnds(r, IF ended.result.success THEN ReportNotes(ended.result)
                                    ELSE ReportError(ended.result))
    /\ UNCHANGED <<isRecording, mediaRecorderRef, useOllama, runVars, chunkVars>>
    /\ UNCHANGED <<splitVars, estimateVars, breadcrumbVars, transcriberVars, ollamaVars>>

RecorderInit ==
    /\ Constructed
    /\ RecorderIdle
    /\ SplitIdle
    /\ EstimateIdle
    /\ BreadcrumbIdle
    /\ TranscriberIdle
    /\ OllamaIdle

RecorderNext ==
    \/ StartClicked
    \/ DisplayMediaSettled
    \/ StopClicked
    \/ SharingEnded
    \/ OnStop
    \/ InitialCalled
    \/ InitialReturned
    \/ FollowUpReturned

RecorderSpec == RecorderInit /\ [][RecorderNext]_vars

-----------------------------------------------------------------------------
(* LLMHelper.switchToOllama and LLMHelper.switchToGemini, lines 473-499 *)

\* faulty variant: a call without url goes back to the default endpoint
UrlAfterSwitchResets(url, current) == IF Truthy(url) THEN url ELSE "http://localhost:11434"

\* if (url) this.ollamaUrl = url
UrlAfterSwitch(url, current) == IF Truthy(url) THEN url ELSE current

\* switchToOllama(m, url) up to its return or its await: with a model name
\* the model is set; without one initializeOllamaModel is called and awaited
SwitchToOllamaWith(m, url) ==
    /\ useOllama' = TRUE
    /\ ollamaUrl' = UrlAfterSwitch(url, ollamaUrl)
    /\ IF Truthy(m)
       THEN /\ ollamaModel' = m
            /\ UNCHANGED <<ipc, configuredModel, availableModels, fallbackModels>>
       ELSE /\ ipc \in {"idle", "done"}
            /\ ipc' = "fetching"
            /\ configuredModel' = ollamaModel
            /\ availableModels' = None
            /\ fallbackModels' = None
            /\ UNCHANGED ollamaModel
    /\ lastSwitch' = [op |-> "ollama", named |-> Truthy(m), withUrl |-> Truthy(url)]
    /\ savedOllama' = IF lastSwitch.op = "gemini" THEN savedOllama ELSE None
    /\ UNCHANGED <<model, ollamaInitializationPromise, runVars, chunkVars,
                   unitVars, transcriberVars>>

SwitchToOllama ==
    \E m \in ModelNames \cup {Null}, url \in Urls \cup {Null} : SwitchToOllamaWith(m, url)

\* faulty variant: the throw is missing
SwitchToGeminiNeverThrows(apiKey, mdl) == FALSE

\* faulty variant: the call throws whenever it is given no key
SwitchToGeminiThrowsWithoutKey(apiKey, mdl) == ~Truthy(apiKey)

\* if (!this.model && !apiKey) throw, with this.model as the call found it:
\* a key given has made a client by then
SwitchToGeminiThrows(apiKey, mdl) == mdl = Null /\ ~Truthy(apiKey)

\* a switchToGemini call that threw
GeminiRefused == [op |-> "gemini-refused", named |-> FALSE, withUrl |-> FALSE]

\* switchToGemini(apiKey): a key makes a new client; with no key and no
\* client it throws before anything else is written
SwitchToGeminiWith(apiKey) ==
    /\ model' = IF Truthy(apiKey) THEN apiKey ELSE model
    /\ IF SwitchToGeminiThrows(apiKey, model)
       THEN /\ lastSwitch' = GeminiRefused
            /\ UNCHANGED <<useOllama, savedOllama>>
       ELSE /\ useOllama' = FALSE
            /\ lastSwitch' = [op |-> "gemini", named |-> FALSE, withUrl |-> FALSE]
            /\ savedOllama' = Some([model |-> ollamaModel, url |-> ollamaUrl,
                                    settled |-> ipc \in {"idle", "done"}])
    /\ UNCHANGED <<ollamaModel, ollamaUrl, ipc, configuredModel, availableModels,
                   fallbackModels, ollamaInitializationPromise, runVars, chunkVars,
                   unitVars, transcriberVars>>

SwitchToGemini == \E apiKey \in Keys \cup {Null} : SwitchToGeminiWith(apiKey)

\* a helper as constructed, with any model name and endpoint; the Ollama
\* branch of the constructor has called initializeOllamaModel
SwitchInit ==
    /\ Constructed
    /\ UnitsIdle
    /\ TranscriberIdle
    /\ ollamaModel \in ModelNames
    /\ ollamaUrl \in Urls
    /\ ipc = IF useOllama THEN "fetching" ELSE "idle"
    /\ configuredModel = IF useOllama THEN ollamaModel ELSE Null
    /\ availableModels = None
    /\ fallbackModels = None
    /\ lastSwitch = NoSwitch
    /\ savedOllama = None

SwitchNext ==
    \/ SwitchToOllama
    \/ SwitchToGemini
    \/ ModelsFetched
    \/ TestCallAnswered
    \/ TestCallFailed
    \/ FallbackFetched

SwitchSpec == SwitchInit /\ [][SwitchNext]_vars

-----------------------------------------------------------------------------
(* The chunked processMeetingAudio with switchToOllama and switchToGemini   *)
(* called while it is suspended at an await                                 *)

\* switchToOllama("llama3") is called once while a run is suspended at an await
SwitchToOllamaDuringRun ==
    /\ pc # "idle"
    /\ lastSwitch = NoSwitch
    /\ SwitchToOllamaWith("llama3", Null)

\* switchToGemini is called once while a run is suspended at an await
SwitchToGeminiDuringRun ==
    /\ pc # "idle"
    /\ lastSwitch = NoSwitch
    /\ SwitchToGemini

ConcurrentNext ==
    \/ ChunkedCall
    \/ ChunkedTranscribed
    \/ ChunkedTranscribeFailed
    \/ SanitizeAnswered
    \/ SanitizeFailed
    \/ ExtractAnswered
    \/ ExtractFailed
    \/ SynthesisAnswered
    \/ SynthesisFailed
    \/ ResultDelivered
    \/ SwitchToOllamaDuringRun
    \/ SwitchToGeminiDuringRun

ConcurrentSpec == Init /\ [][ConcurrentNext]_vars

-----------------------------------------------------------------------------
(* Properties *)

\* every character of t is whitespace (the empty text included)
Blank(t) == \A i \in 1..Len(t) : IsSpace(Chr(t[i]))

HasField(f) == f \in DOMAIN result[1]
RequiresAction(a) == HasField("requiresAction") /\ result[1].requiresAction = a

AwaitingConfirmation == ~result[1].success /\ RequiresAction("confirm-long-transcription")
AwaitingCredential == ~result[1].success /\ RequiresAction("provide-gemini-api-key")
Done == result[1].success /\ ~HasField("requiresAction")
Failed ==
    /\ ~result[1].success
    /\ ~HasField("requiresAction")
    /\ result[1].transcription = <<>>
    /\ result[1].notes = <<>>
    /\ HasField("error")
    /\ result[1].error # ""

\* the calls of this invocation whose prompt is of kind k
CallsOfKind(k) == {i \in 1..Len(calls) : calls[i].prompt.kind = k}

\* C1: every result returned with success=true has non-empty notes, whatever
\* the provider answered
C1_SuccessHasNotes ==
    (result # None /\ result[1].success) => result[1].notes # <<>>

\* C2: a result with requiresAction set has success=false and notes="", and
\* its transcription field is the non-empty transcript that was obtained, the
\* override when one was passed
C2_GateKeepsTranscript ==
    (result # None /\ HasField("requiresAction")) =>
        /\ result[1].requiresAction \in
               {"confirm-long-transcription", "provide-gemini-api-key"}
        /\ ~result[1].success
        /\ result[1].notes = <<>>
        /\ transcription # None
        /\ ~Blank(transcription[1])
        /\ result[1].transcription = transcription[1]
        /\ options.transcriptionOverride # None
               => result[1].transcription = options.transcriptionOverride[1]

\* a confirmation request that returns a transcript the subprocess produced
C2_Witness ==
    /\ result # None
    /\ RequiresAction("confirm-long-transcription")
    /\ transcribeRuns = 1
    /\ result[1].transcription # <<>>

\* C3: a transcript of more than 10000 estimated tokens, processed without
\* allowLongTranscription, yields success=false, the confirmation request,
\* notes="", tokenCount above the threshold and the transcript itself, for
\* every mode and credential
C3_LongTranscriptAsksConfirmation ==
    (/\ pipeline = "gated"
     /\ result # None
     /\ transcription # None
     /\ estimateUkrainianTokens(transcription[1]) > transcriptionTokenThreshold
     /\ ~options.allowLongTranscription) =>
        /\ ~result[1].success
        /\ RequiresAction("confirm-long-transcription")
        /\ result[1].notes = <<>>
        /\ HasField("tokenCount")
        /\ result[1].tokenCount > transcriptionTokenThreshold
        /\ result[1].tokenCount = estimateUkrainianTokens(transcription[1])
        /\ result[1].transcription = transcription[1]

\* the confirmation is asked of a cloud-mode call that has no credential
C3_Witness ==
    /\ pipeline = "gated"
    /\ result # None
    /\ RequiresAction("confirm-long-transcription")
    /\ options.mode = "gemini"
    /\ options.geminiApiKey = Null
    /\ model = Null

CloudWithoutCredential ==
    /\ pipeline = "gated"
    /\ pc # "idle"
    /\ ResolveMode(options) = "gemini"
    /\ model = Null
    /\ ~Truthy(options.geminiApiKey)

\* C5 as stated: the cloud mode without client and without key returns the
\* request for a key, and the invocation issues no provider call
C5_CloudWithoutCredentialAsksKey ==
    (CloudWithoutCredential /\ result # None) =>
        /\ RequiresAction("provide-gemini-api-key")
        /\ calls = <<>>

\* C5 amended: such an invocation issues no provider call at any point, and
\* it returns the request for a key whenever its transcript is not blank and
\* needs no confirmation
C5_CloudWithoutCredentialCallsNobody ==
    CloudWithoutCredential =>
        /\ calls = <<>>
        /\ pending = None
        /\ (/\ result # None
            /\ transcription # None
            /\ ~Blank(transcription[1])
            /\ \/ options.allowLongTranscription
               \/ estimateUkrainianTokens(transcription[1]) <= transcriptionTokenThreshold)
               => AwaitingCredential /\ result[1].transcription = transcription[1]

\* the request for a key, returned after a transcription
C5_Witness ==
    /\ CloudWithoutCredential
    /\ result # None
    /\ RequiresAction("provide-gemini-api-key")
    /\ transcribeRuns = 1

\* C6: an invocation with a transcriptionOverride never runs transcribeAudio,
\* and the override is the transcript that is gated, summarised and returned
C6_OverrideSkipsTranscription ==
    (pipeline = "gated" /\ pc # "idle" /\ options.transcriptionOverride # None) =>
        /\ transcribeRuns = 0
        /\ pc # "transcribing"
        /\ transcription = options.transcriptionOverride
        /\ \A i \in CallsOfKind("meeting") :
               calls[i].prompt.body = options.transcriptionOverride[1]
        /\ result # None =>
               /\ (result[1].success \/ HasField("requiresAction"))
                      => result[1].transcription = options.transcriptionOverride[1]
               /\ ~Blank(options.transcriptionOverride[1]) =>
                      (RequiresAction("confirm-long-transcription") <=>
                          /\ estimateUkrainianTokens(options.transcriptionOverride[1])
                                 > transcriptionTokenThreshold
                          /\ ~options.allowLongTranscription)

\* the follow-up of a confirmed long transcript: summarised from the override
C6_Witness ==
    /\ pipeline = "gated"
    /\ result # None
    /\ options.transcriptionOverride # None
    /\ options.allowLongTranscription
    /\ estimateUkrainianTokens(options.transcriptionOverride[1])
           > transcriptionTokenThreshold
    /\ result[1].success
    /\ CallsOfKind("meeting") # {}

\* C7: a transcript that is empty or only whitespace ends the call in Failed:
\* success=false, transcription="", notes="", an error, no requiresAction,
\* and no provider call
C7_BlankTranscriptFails ==
    (result # None /\ transcription # None /\ Blank(transcription[1])) =>
        /\ Failed
        /\ calls = <<>>

\* a whitespace-only override that is not the empty string
C7_Witness ==
    /\ result # None
    /\ options.transcriptionOverride # None
    /\ options.transcriptionOverride[1] # <<>>
    /\ Blank(options.transcriptionOverride[1])
    /\ Failed

\* C8: every invocation ends with a result record that is exactly one of
\* AwaitingConfirmation, AwaitingCredential, Done and Failed; a rejected
\* subprocess or provider call ends it in Failed, never in a success
C8_ExactlyOneOutcome ==
    /\ pc = "returned" <=> result # None
    /\ result # None =>
        /\ Cardinality({o \in {"confirmation", "credential", "done", "failed"} :
               \/ o = "confirmation" /\ AwaitingConfirmation
               \/ o = "credential" /\ AwaitingCredential
               \/ o = "done" /\ Done
               \/ o = "failed" /\ Failed}) = 1
        /\ (transcribeRuns = 1 /\ transcription = None) => Failed
        /\ (pipeline = "gated" /\ calls # <<>> /\ lastAnswer = None) => Failed
        /\ (pipeline = "chunked" /\ CallsOfKind("synthesis") # {} /\ lastAnswer = None)
               => Failed

\* a provider call was issued and rejected, and the call returned Failed
C8_Witness ==
    /\ result # None
    /\ calls # <<>>
    /\ lastAnswer = None
    /\ Failed
    /\ result[1].error \in {OllamaFailedError, GeminiFailedError}

\* the breadcrumb that the blocks extracted so far leave in effect
BreadcrumbInEffect ==
    IF extractedBlocks = <<>> THEN NoPreviousContext
    ELSE buildBreadcrumbsFromExtraction(extractedBlocks[Len(extractedBlocks)].body)

\* the chunked invocation got past the empty check
InChunkLoop ==
    pipeline = "chunked" /\ transcription # None /\ ~Blank(transcription[1])

\* C9: when no chunk produced an extraction block, the chunked call returns
\* success=true, the transcript, fallback notes that contain the transcript,
\* and an error; no synthesis call is made
C9_AllChunksFailedFallsBack ==
    (InChunkLoop /\ result # None /\ extractedBlocks = <<>>) =>
        /\ result[1].success
        /\ result[1].transcription = transcription[1]
        /\ \E k \in 2..(Len(result[1].notes) + 1) :
               SubSeq(result[1].notes, k, Len(result[1].notes)) = transcription[1]
        /\ HasField("error")
        /\ result[1].error # ""
        /\ CallsOfKind("synthesis") = {}

\* two chunks or more, one lost in sanitize and one in extract
C9_Witness ==
    /\ InChunkLoop
    /\ result # None
    /\ extractedBlocks = <<>>
    /\ Len(chunks) >= 2
    /\ \E i, j \in 1..Len(chunkLog) :
           /\ chunkLog[i].outcome = "sanitize-failed"
           /\ chunkLog[j].outcome = "extract-failed"

\* C10: a chunk whose sanitize or extract call failed records no block and
\* leaves the breadcrumb as it was; the loop goes on to every later chunk,
\* and the next extraction prompt carries the breadcrumb in effect before
C10_FailedChunkIsSkipped ==
    InChunkLoop =>
        /\ breadcrumbs = BreadcrumbInEffect
        /\ \A k \in 1..Len(chunkLog) :
               /\ chunkLog[k].index = k - 1
               /\ chunkLog[k].outcome # "extracted" =>
                      /\ chunkLog[k].after = chunkLog[k].before
                      /\ \A b \in 1..Len(extractedBlocks) : extractedBlocks[b].number # k
               /\ k < Len(chunkLog) => chunkLog[k + 1].before = chunkLog[k].after
        /\ pc \in {"sanitizing", "extracting"} =>
               index = Len(chunkLog) /\ index < Len(chunks)
        /\ pc \in {"synthesizing", "returned"} => Len(chunkLog) = Len(chunks)
        /\ pc = "extracting" => pending[1].prompt.breadcrumbs = breadcrumbs

\* a failed chunk between an extracted chunk, whose breadcrumb it carries
\* forward, and a later chunk that is extracted with that breadcrumb
C10_Witness ==
    /\ InChunkLoop
    /\ \E k \in 2..(Len(chunkLog) - 1) :
           /\ chunkLog[k].outcome # "extracted"
           /\ chunkLog[k].before # NoPreviousContext
           /\ chunkLog[k + 1].outcome = "extracted"
           /\ chunkLog[k + 1].before = chunkLog[k - 1].after

\* the chunks (1-based) whose extraction succeeded
ExtractedChunks == {k \in 1..Len(chunkLog) : chunkLog[k].outcome = "extracted"}

\* the loop is over; some chunks were skipped, some were extracted
PartialFailure ==
    /\ InChunkLoop
    /\ Len(chunkLog) = Len(chunks)
    /\ ExtractedChunks # {}
    /\ ExtractedChunks # 1..Len(chunkLog)

\* extractedBlocks holds one block per extracted chunk, in chunk order
BlocksOfExtractedChunks ==
    /\ Len(extractedBlocks) = Cardinality(ExtractedChunks)
    /\ \A b \in 1..Len(extractedBlocks) :
           /\ extractedBlocks[b].number \in ExtractedChunks
           /\ buildBreadcrumbsFromExtraction(extractedBlocks[b].body)
                  = chunkLog[extractedBlocks[b].number].after
           /\ b < Len(extractedBlocks) =>
                  extractedBlocks[b].number < extractedBlocks[b + 1].number

\* one synthesis call was issued, the last call, and its prompt holds the blocks
SynthesisBuiltFromBlocks ==
    /\ CallsOfKind("synthesis") = {Len(calls)}
    /\ calls # <<>>
    /\ calls[Len(calls)].prompt.blocks = extractedBlocks

\* C11 as stated: when some but not all chunks failed, the synthesis prompt is
\* built from the blocks of the extracted chunks in chunk order, and the
\* result is success=true without an error field
C11_PartialFailureSucceeds ==
    (PartialFailure /\ result # None) =>
        /\ BlocksOfExtractedChunks
        /\ SynthesisBuiltFromBlocks
        /\ result[1].success
        /\ ~HasField("error")

\* C11 amended: the synthesis prompt is built from the blocks of the extracted
\* chunks in chunk order; the result is success=true without an error field
\* when the synthesis call resolved, and Failed with the error of the
\* synthesis call when it rejected: no chunk's error reaches the result
C11_PartialFailureSynthesizesTheRest ==
    (PartialFailure /\ pc \in {"synthesizing", "returned"}) =>
        /\ BlocksOfExtractedChunks
        /\ SynthesisBuiltFromBlocks
        /\ result # None =>
               IF lastAnswer # None
               THEN /\ result[1].success
                    /\ ~HasField("error")
                    /\ result[1].notes = lastAnswer[1]
                    /\ result[1].transcription = transcription[1]
               ELSE /\ Failed
                    /\ result[1].error = ProviderError(calls[Len(calls)])

\* three chunks, the extraction of chunk 2 failed, notes made from 1 and 3
C11_Witness ==
    /\ PartialFailure
    /\ result # None
    /\ result[1].success
    /\ Len(chunks) = 3
    /\ chunkLog[2].outcome = "extract-failed"
    /\ ExtractedChunks = {1, 3}
    /\ Len(calls[Len(calls)].prompt.blocks) = 2

IsSanitizeCall(c) == c.prompt.kind = "sanitize"
IsExtractCall(c) == c.prompt.kind = "extract"

\* the chunk loop is awaiting a call of chunk `index`
InChunkCall == pc \in {"sanitizing", "extracting"}

\* C12: chunks are processed in sequence: one provider call at most is
\* outstanding, the last one issued; the calls of chunk i+1 are issued only
\* after chunk i was finished and its breadcrumb update made; the sanitize
\* calls go through the chunks in order, an extract call follows the sanitize
\* call of its chunk, and the synthesis call comes after the last chunk
C12_ChunksInSequence ==
    pipeline = "chunked" =>
        /\ pending # None <=> pc \in {"sanitizing", "extracting", "synthesizing"}
        /\ pending # None => (calls # <<>> /\ pending[1] = calls[Len(calls)])
        /\ InChunkCall =>
               /\ index = Len(chunkLog)
               /\ index < Len(chunks)
               /\ index > 0 => chunkLog[index].after = breadcrumbs
        /\ LET sanitizeCalls == SelectSeq(calls, IsSanitizeCall)
           IN  /\ Len(sanitizeCalls) = Len(chunkLog) + (IF InChunkCall THEN 1 ELSE 0)
               /\ \A j \in 1..Len(sanitizeCalls) :
                      sanitizeCalls[j].prompt.body = chunks[j]
        /\ \A i \in 1..Len(calls) :
               /\ IsExtractCall(calls[i]) => (i > 1 /\ IsSanitizeCall(calls[i - 1]))
               /\ calls[i].prompt.kind = "synthesis" =>
                      (i = Len(calls) /\ Len(chunkLog) = Len(chunks))
        /\ pc = "synthesizing" => Len(chunkLog) = Len(chunks)

\* the synthesis call is outstanding after three chunks: two sanitize calls
\* and an extract call came before the calls of the last chunk
C12_Witness ==
    /\ pipeline = "chunked"
    /\ pc = "synthesizing"
    /\ Len(chunks) = 3
    /\ Len(SelectSeq(calls, IsSanitizeCall)) = 3
    /\ Len(SelectSeq(calls, IsExtractCall)) >= 2

\* the chunks (1-based) for which an extract call was issued, in order
ChunksWithExtractCall ==
    LET done == {k \in 1..Len(chunkLog) :
                    chunkLog[k].outcome \in {"extracted", "extract-failed"}}
    IN  IF pc = "extracting" THEN done \cup {index + 1} ELSE done

\* the n-th smallest element of the set S of numbers
RECURSIVE NthOf(_, _)
NthOf(S, n) ==
    LET least == CHOOSE x \in S : \A y \in S : x <= y
    IN  IF n = 1 THEN least ELSE NthOf(S \ {least}, n - 1)

\* the breadcrumb of the last chunk before chunk k whose extraction succeeded
BreadcrumbBefore(k) ==
    LET earlier == {b \in 1..Len(extractedBlocks) : extractedBlocks[b].number < k}
    IN  IF earlier = {} THEN NoPreviousContext
        ELSE buildBreadcrumbsFromExtraction(
                 extractedBlocks[CHOOSE b \in earlier : \A c \in earlier : c <= b].body)

\* C13: the extraction prompt of every chunk carries the breadcrumb derived
\* from the extraction output of the most recent earlier chunk whose
\* extraction succeeded, and the placeholder when there is none
C13_ExtractionPromptCarriesBreadcrumb ==
    InChunkLoop =>
        LET extractCalls == SelectSeq(calls, IsExtractCall)
        IN  /\ Len(extractCalls) = Cardinality(ChunksWithExtractCall)
            /\ \A j \in 1..Len(extractCalls) :
                   extractCalls[j].prompt.breadcrumbs
                       = BreadcrumbBefore(NthOf(ChunksWithExtractCall, j))

\* the extraction prompt of chunk 2 carries the breadcrumb of chunk 1, which
\* is not the placeholder
C13_Witness ==
    /\ InChunkLoop
    /\ pc = "extracting"
    /\ index = 1
    /\ chunkLog[1].outcome = "extracted"
    /\ pending[1].prompt.breadcrumbs = buildBreadcrumbsFromExtraction(extractedBlocks[1].body)
    /\ pending[1].prompt.breadcrumbs # NoPreviousContext

\* chunks.join(" ")
RECURSIVE JoinWithSpace(_)
JoinWithSpace(chs) ==
    IF chs = <<>> THEN <<>>
    ELSE Head(chs) \o (IF Tail(chs) = <<>> THEN <<>> ELSE Space \o JoinWithSpace(Tail(chs)))

\* the sentences the splitter finds in the text under study
SplitSentences == TrimAndFilter(SentenceParts(NormalizeText(splitArgs.text)))

\* no sentence of the text under study is longer than maxLen
NoHardSplit ==
    \A i \in 1..Len(SplitSentences) : StrLen(SplitSentences[i]) <= splitArgs.maxLen

\* C14: when no sentence is longer than maxLen, the chunks joined in order
\* with a single space are the whitespace-normalized text, also for a text
\* that begins with a terminator or has a terminator not followed by a space
C14_JoinedChunksAreTheText ==
    (splitResult # None /\ NoHardSplit) =>
        JoinWithSpace(splitResult[1]) = NormalizeText(splitArgs.text)

\* C15: no chunk returned by splitTextIntoChunks is longer than maxLen; a
\* chunk built by accumulating whole sentences in particular
C15_NoChunkLongerThanMaxLen ==
    splitResult # None =>
        \A i \in 1..Len(splitResult[1]) : StrLen(splitResult[1][i]) <= splitArgs.maxLen

\* two chunks, the first made of two sentences and exactly maxLen long,
\* closed because the third sentence would not fit
C15_Witness ==
    /\ splitResult # None
    /\ NoHardSplit
    /\ Len(SplitSentences) = 3
    /\ Len(splitResult[1]) = 2
    /\ splitResult[1][1] = Candidate(SplitSentences[1], SplitSentences[2])
    /\ StrLen(splitResult[1][1]) = splitArgs.maxLen
    /\ splitArgs.targetLen < splitArgs.maxLen

\* transcribeAudio has returned or thrown
TranscribeEnded == tpc \in {"returned", "thrown"}

\* what exec captured of the output of the ended subprocess
Captured ==
    execAsync(execution[1],
              IF revision = "recovering" THEN TRANSCRIPTION_MAX_BUFFER_BYTES
              ELSE DefaultMaxBuffer).stdout

\* C16: once transcribeAudio has returned or thrown, the temporary audio
\* file does not exist, whatever the exit path; while the call is past the
\* write and not over, the file is there
C16_TempFileRemoved ==
    /\ TranscribeEnded => (~tempFile /\ transcribeOutcome # None)
    /\ tpc \in {"resolving", "running"} => tempFile

\* the call threw after a subprocess failure that left nothing to recover
C16_Witness ==
    /\ revision = "recovering"
    /\ tpc = "thrown"
    /\ execution # None
    /\ execution[1].exit # 0
    /\ ~tempFile

\* C17: a subprocess that ended with a non-zero status and whose captured
\* output is not blank makes runTranscriptionCommand return that output,
\* trimmed, and nothing is raised
C17_NonZeroExitWithOutputRecovers ==
    (/\ revision = "recovering"
     /\ TranscribeEnded
     /\ execution # None
     /\ execution[1].exit # 0
     /\ Trim(Captured) # <<>>) =>
        /\ tpc = "returned"
        /\ transcribeOutcome[1] = Returned(Trim(Captured))

\* a failed process that printed a transcript with blanks around it
C17_Witness ==
    /\ revision = "recovering"
    /\ tpc = "returned"
    /\ execution # None
    /\ execution[1].exit # 0
    /\ StrLen(execution[1].stdout) <= TRANSCRIPTION_MAX_BUFFER_BYTES
    /\ Trim(execution[1].stdout) # execution[1].stdout
    /\ transcribeOutcome[1].text = Trim(execution[1].stdout)

\* transcribeAudio threw the empty-result error
RaisedEmpty ==
    /\ tpc = "thrown"
    /\ transcribeOutcome[1].error.message = EmptyResultMessage

\* C18: transcribeAudio raises the empty-result error exactly when the
\* captured output is empty or blank, on every termination path, and never
\* returns an empty or blank string
C18_EmptyOutputRaisesEmpty ==
    (TranscribeEnded /\ execution # None) =>
        /\ RaisedEmpty <=> Trim(IF execution[1].txt = "none" THEN Captured
                                ELSE execution[1].txtContent) = <<>>
        /\ tpc = "returned" => Trim(transcribeOutcome[1].text) # <<>>

\* C19: a transcript that transcribeAudio returns is the whole of what the
\* subprocess wrote (trimmed), never a part of it cut off at the buffer size
C19_NoTruncatedTranscript ==
    (tpc = "returned" /\ execution # None) =>
        StrLen(transcribeOutcome[1].text) = StrLen(Trim(Written(execution[1])))

\* C20: once initializeOllamaModel has completed, with a non-empty discovered
\* list the active model is the configured model if it is listed and the
\* first listed model otherwise, and with a failed or empty discovery the
\* configured model is unchanged
C20_ActiveModelAfterDiscovery ==
    (ipc = "done" /\ availableModels # None) =>
        ollamaModel = IF Len(availableModels[1]) > 0
                      THEN SelectModel(availableModels[1], configuredModel)
                      ELSE configuredModel

\* C21: every provider call of one processMeetingAudio run goes to the same
\* backend, also when the provider is switched while the run is suspended
C21_OneBackendPerRun ==
    \A i, j \in 1..Len(calls) : calls[i].backend = calls[j].backend

\* the current invocation is a mode="gemini" call of the gated revision
\* that has reached summarizeTranscription
GeminiModeSummarizing ==
    /\ pipeline = "gated"
    /\ pc \in {"calling", "returned"}
    /\ ResolveMode(options) = "gemini"
    /\ calls # <<>>

\* C22: a mode="gemini" call with a geminiApiKey makes the call with a
\* client (the helper's, or one made from the key when the helper has none)
\* and the helper holds that client afterwards; a client once held is never
\* dropped, and provide-gemini-api-key is returned only by a helper without a
\* client: after the keyed call no mode="gemini" call returns it
C22_LazyClientIsRetained ==
    /\ [](GeminiModeSummarizing =>
            /\ model # Null
            /\ calls[Len(calls)] = GeminiGenerate(model, buildMeetingPrompt(transcription[1])))
    /\ [][model # Null => model' = model]_vars
    /\ []((result # None /\ AwaitingCredential) => model = Null)

\* a helper constructed for Ollama holds a client, and a mode="gemini" call
\* without a key has returned notes
C22_Witness ==
    /\ useOllama
    /\ GeminiModeSummarizing
    /\ ~Truthy(options.geminiApiKey)
    /\ result # None
    /\ Done

\* C24: every result with success=true carries the transcript that was
\* processed and, as tokenCount, the token estimate of that transcript
C24_DoneCarriesTranscriptAndTokenCount ==
    (result # None /\ result[1].success) =>
        /\ result[1].transcription = transcription[1]
        /\ HasField("tokenCount")
        /\ result[1].tokenCount = estimateUkrainianTokens(transcription[1])

\* the characters of a text, one by one
RECURSIVE Characters(_)
Characters(text) ==
    IF text = <<>> THEN <<>>
    ELSE [i \in 1..Cnt(Head(text)) |-> Chr(Head(text))] \o Characters(Tail(text))

\* the number of maximal runs of word characters
MaximalWordRuns(cs) ==
    Cardinality({i \in 1..Len(cs) :
                    IsWordChar(cs[i]) /\ (i = 1 \/ ~IsWordChar(cs[i - 1]))})

\* the number of non-whitespace characters outside the runs of word characters
CharactersOutsideWords(cs) ==
    Cardinality({i \in 1..Len(cs) : ~IsWordChar(cs[i]) /\ ~IsSpace(cs[i])})

\* C25: the estimate is the number of maximal runs of word characters plus
\* the number of non-whitespace characters outside such runs; the estimate of
\* a followed by b is at least the estimate of a; whitespace-only text
\* estimates to 0
C25_EstimateCountsAndIsMonotonic ==
    estimateResult # None =>
        LET a == Characters(estimateArgs.a)
            ab == Characters(estimateArgs.a \o estimateArgs.b)
        IN  /\ estimateResult[1].a = MaximalWordRuns(a) + CharactersOutsideWords(a)
            /\ estimateResult[1].ab = MaximalWordRuns(ab) + CharactersOutsideWords(ab)
            /\ estimateResult[1].ab >= estimateResult[1].a
            /\ Blank(estimateArgs.a) => estimateResult[1].a = 0

\* a ends inside a word that b continues, so that the word is counted once
C25_Witness ==
    /\ estimateResult # None
    /\ estimateArgs.a = << <<".", 2>>, <<"w", 2>> >>
    /\ estimateArgs.b = << <<"-", 1>>, <<",", 1>> >>
    /\ estimateResult[1].a = 3
    /\ estimateResult[1].ab = 4

\* the rule of C28: the running chunk is closed before `sentence` when
\* appending it with one space would exceed maxLen, or the running chunk is
\* already targetLen long
ClosedBefore(running, sentence, maxLen, targetLen) ==
    \/ StrLen(running) + 1 + StrLen(sentence) > maxLen
    \/ StrLen(running) >= targetLen

\* the chunks that rule gives, each with how it came about: "hard" for a
\* piece of a sentence longer than maxLen, "closed" for a chunk closed before
\* a sentence (`next`) that then starts the following chunk, "flushed" for
\* the others
RECURSIVE ChunksByRule(_, _, _, _, _)
ChunksByRule(sentences, out, running, maxLen, targetLen) ==
    LET flushed == IF running = <<>> THEN out
                   ELSE Append(out, [text |-> running, how |-> "flushed", next |-> <<>>])
    IN  IF sentences = <<>> THEN flushed
        ELSE LET sentence == Head(sentences) IN
             IF StrLen(sentence) > maxLen
             THEN LET pieces == HardSplit(sentence, maxLen)
                  IN  ChunksByRule(Tail(sentences),
                                   flushed \o [i \in 1..Len(pieces) |->
                                                  [text |-> pieces[i], how |-> "hard", next |-> <<>>]],
                                   <<>>, maxLen, targetLen)
             ELSE IF running = <<>>
             THEN ChunksByRule(Tail(sentences), out, sentence, maxLen, targetLen)
             ELSE IF ClosedBefore(running, sentence, maxLen, targetLen)
             THEN ChunksByRule(Tail(sentences),
                               Append(out, [text |-> running, how |-> "closed",
                                            next |-> sentence]),
                               sentence, maxLen, targetLen)
             ELSE ChunksByRule(Tail(sentences), out, running \o Space \o sentence,
                               maxLen, targetLen)

SplitByRule ==
    ChunksByRule(SplitSentences, <<>>, <<>>, splitArgs.maxLen, splitArgs.targetLen)

\* C28: the chunks returned are those obtained by closing the running chunk
\* before a sentence exactly when appending the sentence with one space would
\* exceed maxLen or the running chunk is already targetLen long, and
\* appending the sentence otherwise; so every chunk but the last that is not
\* next to a hard split is targetLen long or could not take the sentence
\* that follows it within maxLen
C28_ChunkClosedExactlyWhenFullOrAtTarget ==
    splitResult # None =>
        LET byRule == SplitByRule
            returned == splitResult[1]
        IN  /\ returned = [i \in 1..Len(byRule) |-> byRule[i].text]
            /\ \A i \in 1..(Len(returned) - 1) :
                  (/\ byRule[i].how # "hard"
                   /\ byRule[i + 1].how # "hard"
                   /\ i > 1 => byRule[i - 1].how # "hard")
                  => \/ StrLen(returned[i]) >= splitArgs.targetLen
                     \/ StrLen(returned[i]) + 1 + StrLen(byRule[i].next) > splitArgs.maxLen

\* two sentences that would fit together within maxLen: the first is
\* already targetLen long and is closed before the second
C28_Witness ==
    /\ splitResult # None
    /\ NoHardSplit
    /\ Len(SplitSentences) = 2
    /\ splitResult[1] = SplitSentences
    /\ StrLen(SplitSentences[1]) >= splitArgs.targetLen
    /\ StrLen(Candidate(SplitSentences[1], SplitSentences[2])) <= splitArgs.maxLen

\* a line of the extraction output that the breadcrumb takes: not blank and,
\* once its bullet is removed, not beginning with "##"
UsableLine(line) ==
    LET content == Characters(StripBullet(Trim(line)))
    IN  /\ ~Blank(line)
        /\ ~(Len(content) >= 2 /\ content[1] = "#" /\ content[2] = "#")

\* the number of lines of a text
LineCount(text) == 1 + Cardinality({i \in 1..Len(text) : Chr(text[i]) = "\n"})

\* the first (at most 5) usable lines, each with its bullet removed and "- " put before it
ExpectedBreadcrumbLines ==
    LET usable == SelectSeq(extraction, UsableLine)
    IN  [i \in 1..(IF Len(usable) < 5 THEN Len(usable) ELSE 5) |->
            Bullet \o StripBullet(Trim(usable[i]))]

\* C29: the breadcrumb is made of the first (at most 5) non-empty lines of
\* the output that are not headings (lines that begin with "##" once the
\* bullet is removed), each with its leading bullet removed and prefixed with
\* "- "; it has at most 5 lines and is never empty: with no usable line it is
\* the 'no previous context' placeholder
C29_BreadcrumbIsFirstFiveUsableLines ==
    breadcrumbResult # None =>
        /\ breadcrumbResult[1] # <<>>
        /\ LineCount(breadcrumbResult[1]) <= 5
        /\ IF ExpectedBreadcrumbLines = <<>>
           THEN breadcrumbResult[1] = NoPreviousContext
           ELSE breadcrumbResult[1] = JoinLines(ExpectedBreadcrumbLines)

\* an output of six usable lines, of which the breadcrumb has the first five
C29_Witness ==
    /\ breadcrumbResult # None
    /\ Len(SelectSeq(extraction, UsableLine)) = 6
    /\ LineCount(breadcrumbResult[1]) = 5
    /\ \E i \in 1..5 : extraction[i] # extraction[6]

\* an output of headings and blank lines only, which gives the placeholder
C29_PlaceholderWitness ==
    /\ breadcrumbResult # None
    /\ Len(extraction) >= 2
    /\ SelectSeq(extraction, UsableLine) = <<>>
    /\ breadcrumbResult[1] = NoPreviousContext

\* recorder r is awaiting a transcribeAndAnalyze call
CallInFlight(r) == recorders[r].phase \in {"initial", "followUp"}

\* C26: a result with requiresAction="provide-gemini-api-key", of the initial
\* call or of a follow-up call, is never reported as an error: the recorder
\* prompts for a key and retries
C26_CredentialRequestIsNeverReportedAsError ==
    \A r \in Recordings :
        (/\ recorders[r].reported # None
         /\ recorders[r].reported[1].kind = "error"
         /\ recorders[r].reported[1].from # None)
        => ~(/\ "requiresAction" \in DOMAIN recorders[r].reported[1].from[1]
             /\ recorders[r].reported[1].from[1].requiresAction = "provide-gemini-api-key")

\* C27: at most one transcribeAndAnalyze call is in flight at a time, and
\* the cleanup of one handler never stops the stream of another recording
C27_OneInvocationInFlight ==
    /\ \A r, q \in Recordings : (CallInFlight(r) /\ CallInFlight(q)) => r = q
    /\ \A r \in Recordings : recorders[r].stoppedBy \in {0, r}

\* processMeetingAudio was called and has not returned
Running == pc \notin {"idle", "returned"}

\* the provider calls of a chunked run: one sanitize and one extract call at
\* most per chunk, and one synthesis call at most
CallsWithinBudget ==
    pipeline = "chunked" =>
        /\ Len(SelectSeq(calls, IsSanitizeCall)) <= Len(chunks)
        /\ Len(SelectSeq(calls, IsExtractCall)) <= Len(chunks)
        /\ Cardinality(CallsOfKind("synthesis")) <= 1
        /\ Len(calls) <= 2 * Len(chunks) + 1

\* the loop goes on to a later chunk when a call of chunk `index` rejects
FailedChunkIsLeft ==
    (SanitizeFailed \/ ExtractFailed) =>
        /\ index' > index
        /\ calls' # calls => IsSanitizeCall(calls'[Len(calls')]) \/ pc' = "synthesizing"

\* C30: when every awaited subprocess and provider call completes or fails,
\* every processMeetingAudio invocation returns a result; a chunked run makes
\* at most two provider calls per chunk and one synthesis call, and a chunk
\* whose call failed is not tried again
C30_EveryRunReturns ==
    /\ Running ~> (pc = "returned")
    /\ []CallsWithinBudget
    /\ [][FailedChunkIsLeft]_vars

\* a chunked run of three chunks has returned after seven provider calls
C30_Witness ==
    /\ pipeline = "chunked"
    /\ pc = "returned"
    /\ Len(chunks) = 3
    /\ Len(calls) = 7

\* switchToGemini took effect with no model discovery in flight, and the
\* next switch call was switchToOllama() with no model and no url, whose
\* model discovery has ended
RoundTrip ==
    /\ lastSwitch = [op |-> "ollama", named |-> FALSE, withUrl |-> FALSE]
    /\ savedOllama # None
    /\ savedOllama[1].settled
    /\ ipc = "done"

\* the model discovery of the switch back found the model listed, and its
\* test call resolved
DiscoveryKeptModel ==
    /\ availableModels # None
    /\ Includes(availableModels[1], configuredModel)
    /\ fallbackModels = None

SwitchFrame ==
    /\ \A m \in ModelNames \cup {Null}, url \in Urls \cup {Null} :
          SwitchToOllamaWith(m, url) =>
              /\ model' = model
              /\ ~Truthy(url) => ollamaUrl' = ollamaUrl
              /\ Truthy(url) => ollamaUrl' = url
              /\ ollamaModel' = IF Truthy(m) THEN m ELSE ollamaModel
    /\ SwitchToGemini => /\ ollamaModel' = ollamaModel
                         /\ ollamaUrl' = ollamaUrl

SummaryCallFailed ==
    /\ pc = "returned"
    /\ calls # <<>>
    /\ calls[Len(calls)].prompt.kind \in {"meeting", "synthesis"}
    /\ lastAnswer = None

\* C31: when the summarisation call fails (the gated call, or the synthesis
\* call of the chunked revision after at least one chunk was extracted), the
\* result is success=false with empty transcription and notes and the
\* provider's error message: the transcript that was computed is not returned
C31_FailedSummaryDropsTranscript ==
    SummaryCallFailed =>
        /\ ~Blank(transcription[1])
        /\ result[1] =
             [success |-> FALSE, transcription |-> <<>>, notes |-> <<>>,
              error |-> IF calls[Len(calls)].backend = "ollama"
                        THEN OllamaFailedError ELSE GeminiFailedError]

\* the synthesis call of a chunked run failed after a chunk was extracted
C31_Witness ==
    /\ SummaryCallFailed
    /\ pipeline = "chunked"
    /\ Len(extractedBlocks) >= 1
    /\ ~result[1].success

\* a gated run has returned for a transcript that is over the threshold and
\* was not allowed to be long
LongTranscriptReturned ==
    /\ pipeline = "gated"
    /\ result # None
    /\ transcription # None
    /\ estimateUkrainianTokens(transcription[1]) > transcriptionTokenThreshold
    /\ ~options.allowLongTranscription

\* C32: the confirmation gate stands before the credential gate: a transcript
\* over the threshold without allowLongTranscription gets the confirmation
\* request and never the request for a key, also in mode "gemini" without any
\* credential; the request for a key is returned only to a call whose
\* options.mode is "gemini"
C32_ConfirmationBeforeCredential ==
    /\ LongTranscriptReturned =>
          AwaitingConfirmation /\ ~RequiresAction("provide-gemini-api-key")
    /\ (result # None /\ RequiresAction("provide-gemini-api-key")) =>
          options.mode = "gemini"

\* a long override transcript, mode "gemini", no client and no key: the
\* confirmation is what is asked for
C32_Witness ==
    /\ LongTranscriptReturned
    /\ CloudWithoutCredential
    /\ transcribeRuns = 0
    /\ AwaitingConfirmation

\* a gated run has returned for a transcript of exactly 10000 estimated tokens
AtThresholdReturned ==
    /\ pipeline = "gated"
    /\ result # None
    /\ transcription # None
    /\ estimateUkrainianTokens(transcription[1]) = transcriptionTokenThreshold

\* C33: the confirmation request is returned only for an estimate strictly
\* greater than 10000 and only without allowLongTranscription: a transcript
\* whose estimate is exactly 10000 is never asked about, and with
\* allowLongTranscription none is, whatever its token count
C33_GateFiresStrictlyAboveThreshold ==
    /\ (pipeline = "gated" /\ result # None /\ RequiresAction("confirm-long-transcription")) =>
          /\ estimateUkrainianTokens(transcription[1]) > transcriptionTokenThreshold
          /\ ~options.allowLongTranscription
    /\ AtThresholdReturned => ~RequiresAction("confirm-long-transcription")
    /\ (pipeline = "gated" /\ result # None /\ options.allowLongTranscription) =>
          ~RequiresAction("confirm-long-transcription")

\* a transcript of exactly 10000 tokens, not allowed to be long, was summarised
C33_Witness ==
    /\ AtThresholdReturned
    /\ ~options.allowLongTranscription
    /\ Done
    /\ result[1].tokenCount = transcriptionTokenThreshold

-----------------------------------------------------------------------------
(* The provider configuration of one helper: the constructor, lines 39-57,  *)
(* followed by switchToOllama, switchToGemini and processMeetingAudio calls *)
(* in any order, a switch also while a run is suspended                     *)

\* new LLMHelper(apiKey, useOllama): the fields it leaves, or the error thrown
LLMHelperConstructor(apiKey, uo) ==
    IF uo
    THEN [thrown |-> FALSE, useOllama |-> TRUE, model |-> Null, promise |-> "set"]
    ELSE IF Truthy(apiKey)
    THEN [thrown |-> FALSE, useOllama |-> FALSE, model |-> apiKey, promise |-> Null]
    ELSE [thrown |-> TRUE, useOllama |-> FALSE, model |-> Null, promise |-> Null]

\* the transcripts of these runs: none, one word
ProviderTexts == { <<>>, << <<"w", 1>> >> }

ProviderOptionsSet ==
    [mode : Modes \cup {Null},
     allowLongTranscription : BOOLEAN,
     geminiApiKey : Keys \cup {Null},
     transcriptionOverride : {None} \cup {Some(t) : t \in ProviderTexts}]

\* what GET /api/tags comes to here: a failure, or one model
ProviderTagsResponses ==
    {[ok |-> FALSE, models |-> <<>>], [ok |-> TRUE, models |-> <<"llama3">>]}

\* every construction that does not throw; the Ollama branch has called
\* initializeOllamaModel
ProviderInit ==
    /\ \E apiKey \in Keys \cup {Null, ""}, uo \in BOOLEAN :
         LET helper == LLMHelperConstructor(apiKey, uo)
         IN  /\ ~helper.thrown
             /\ useOllama = helper.useOllama
             /\ model = helper.model
             /\ ollamaInitializationPromise = helper.promise
    /\ Constructed
    /\ UnitsIdle
    /\ TranscriberIdle
    /\ ollamaModel = "gemma:latest"
    /\ ollamaUrl = "http://localhost:11434"
    /\ ipc = IF useOllama THEN "fetching" ELSE "idle"
    /\ configuredModel = IF useOllama THEN ollamaModel ELSE Null
    /\ availableModels = None
    /\ fallbackModels = None
    /\ lastSwitch = NoSwitch
    /\ savedOllama = None

ProviderGatedCall == GatedCallWith(ProviderOptionsSet)
ProviderGatedTranscribed == GatedTranscribedWith(ProviderTexts)
ProviderChunkedTranscribed == ChunkedTranscribedWith(ProviderTexts)
ProviderModelsFetched == ModelsFetchedWith(ProviderTagsResponses)
ProviderFallbackFetched == FallbackFetchedWith(ProviderTagsResponses)

\* switchToOllama("llama3") or switchToOllama()
ProviderSwitchToOllama == \E m \in {"llama3", Null} : SwitchToOllamaWith(m, Null)

ProviderNext ==
    \/ ProviderGatedCall
    \/ ProviderGatedTranscribed
    \/ GatedTranscribeFailed
    \/ OllamaInitSettled
    \/ GatedAnswered
    \/ GatedProviderFailed
    \/ ChunkedCall
    \/ ProviderChunkedTranscribed
    \/ ChunkedTranscribeFailed
    \/ SanitizeAnswered
    \/ SanitizeFailed
    \/ ExtractAnswered
    \/ ExtractFailed
    \/ SynthesisAnswered
    \/ SynthesisFailed
    \/ ResultDelivered
    \/ ProviderSwitchToOllama
    \/ SwitchToGemini
    \/ ProviderModelsFetched
    \/ TestCallAnswered
    \/ TestCallFailed
    \/ ProviderFallbackFetched

ProviderSpec == ProviderInit /\ [][ProviderNext]_vars

\* C34: after a construction that succeeded, and whatever switchToOllama,
\* switchToGemini and processMeetingAudio calls followed, a provider is
\* configured: useOllama is true or the Gemini client exists; a construction
\* with neither a key nor Ollama mode throws; chatWithGemini never throws
\* "No LLM provider configured" and no result carries that error
C34_SomeProviderIsConfigured ==
    /\ useOllama \/ model # Null
    /\ \A apiKey \in Keys \cup {Null, ""}, uo \in BOOLEAN :
          LLMHelperConstructor(apiKey, uo).thrown <=> (~uo /\ ~Truthy(apiKey))
    /\ chatWithGemini(buildMeetingPrompt(<<>>), model, useOllama).error # NoProviderError
    /\ (result # None /\ HasField("error")) => result[1].error # NoProviderError

\* a helper switched to Ollama and back to Gemini has sent the summarisation
\* of a mode "auto" run to Gemini, and the call failed
C34_Witness ==
    /\ ~useOllama
    /\ lastSwitch.op = "gemini"
    /\ savedOllama # None
    /\ savedOllama[1].model = "llama3"
    /\ pipeline = "gated"
    /\ ResolveMode(options) = "auto"
    /\ result # None
    /\ Failed
    /\ calls # <<>>
    /\ calls[Len(calls)].backend = "gemini"

\* every provider call of the current run went to backend b
AllCallsTo(b) == \A i \in 1..Len(calls) : calls[i].backend = b

\* C35: the mode of a run decides where its calls go and leaves the
\* configured provider alone: mode "local" calls only Ollama and mode "gemini"
\* only Gemini, whatever useOllama is; mode "auto" calls the provider that
\* useOllama selects; and no step of processMeetingAudio changes useOllama
C35_ModeOverridesProviderForTheRun ==
    /\ [](pipeline = "gated" =>
            /\ ResolveMode(options) = "local" => AllCallsTo("ollama")
            /\ ResolveMode(options) = "gemini" => AllCallsTo("gemini")
            /\ ResolveMode(options) = "auto" =>
                  AllCallsTo(IF useOllama THEN "ollama" ELSE "gemini"))
    /\ [][useOllama' = useOllama]_vars

\* a helper configured for Gemini has summarised a mode "local" run with Ollama
C35_Witness ==
    /\ ~useOllama
    /\ model # Null
    /\ pipeline = "gated"
    /\ options.mode = "local"
    /\ result # None
    /\ Done
    /\ \E i \in 1..Len(calls) : calls[i].api = "/api/generate"
    /\ AllCallsTo("ollama")

-----------------------------------------------------------------------------
(* The gated processMeetingAudio called with keys other than the one the   *)
(* helper was built with                                                    *)

\* the keys a caller may type: the one of the constructor, another one
CallKeys == Keys \cup {"k2"}

\* the transcripts of these runs: none, one word
KeyTexts == { <<>>, << <<"w", 1>> >> }

KeyOptionsSet ==
    [mode : Modes \cup {Null},
     allowLongTranscription : BOOLEAN,
     geminiApiKey : CallKeys \cup {Null},
     transcriptionOverride : {None} \cup {Some(t) : t \in KeyTexts}]

KeyGatedCall == GatedCallWith(KeyOptionsSet)
KeyGatedTranscribed == GatedTranscribedWith(KeyTexts)

KeyNext ==
    \/ KeyGatedCall
    \/ KeyGatedTranscribed
    \/ GatedTranscribeFailed
    \/ OllamaInitSettled
    \/ GatedAnswered
    \/ GatedProviderFailed
    \/ ResultDelivered

KeySpec == Init /\ [][KeyNext]_vars

\* C36: the geminiApiKey passed to a mode "gemini" call is the credential of
\* the generation request of that call, also on a helper that holds a client
\* already
C36_SuppliedKeyIsUsed ==
    (/\ pipeline = "gated"
     /\ ResolveMode(options) = "gemini"
     /\ Truthy(options.geminiApiKey)
     /\ calls # <<>>) =>
        calls[Len(calls)].credential = options.geminiApiKey

\* C37: when the configured model is in the list that the discovery found,
\* initializeOllamaModel ends with that model still active, also after a
\* test call that failed
C37_ListedModelStaysActive ==
    (/\ ipc = "done"
     /\ availableModels # None
     /\ Includes(availableModels[1], configuredModel)) =>
        ollamaModel = configuredModel

\* what one switchToGemini call does
SwitchToGeminiEffect ==
    \A apiKey \in Keys \cup {Null} :
        SwitchToGeminiWith(apiKey) =>
            IF model = Null /\ ~Truthy(apiKey)
            THEN /\ lastSwitch' = GeminiRefused
                 /\ UNCHANGED <<useOllama, model, ollamaModel, ollamaUrl>>
            ELSE /\ lastSwitch'.op = "gemini"
                 /\ useOllama' = FALSE
                 /\ model' # Null
                 /\ Truthy(apiKey) => model' = apiKey

\* C38: switchToGemini without a key on a helper without a Gemini client
\* throws and changes nothing of the provider configuration: useOllama stays
\* true, the Ollama model and URL stay; with a key, or on a helper that holds
\* a client, it ends with useOllama false and a client
C38_SwitchToGeminiThrowsOrSwitches ==
    /\ [][SwitchToGeminiEffect]_vars
    /\ [](lastSwitch = GeminiRefused => useOllama /\ model = Null)
    /\ [](lastSwitch.op = "gemini" => ~useOllama /\ model # Null)

\* a helper switched to the model "llama3" at the remote endpoint, and still
\* without a client, has refused switchToGemini()
C38_Witness ==
    /\ lastSwitch = GeminiRefused
    /\ useOllama
    /\ model = Null
    /\ ollamaModel = "llama3"
    /\ ollamaUrl = "http://remote:11434"

\* the onstop handler of recorder r is between its stop event and its
\* finally clause
HandlerRunning(r) == recorders[r].phase \in {"buffering", "initial", "followUp"}

\* C39: the onstop handler of every stopped recording ends having reported
\* one result, notes or an error, whichever way it went through the initial
\* call, the confirmation follow-up and the credential retry; the capture
\* stream of that recording is stopped by then, and isProcessing is false
\* once no handler is running
C39_HandlerReportsOnceAndCleansUp ==
    /\ \A r \in Recordings :
          recorders[r].phase = "finished" =>
              /\ recorders[r].reported # None
              /\ recorders[r].reported[1].kind \in {"notes", "error"}
              /\ recorders[r].stream # "live"
    /\ (\A r \in Recordings : ~HandlerRunning(r)) => ~isProcessing

====
